---- MODULE Spec2Model ----
(***************************************************************************)
(* Model of the icon generator's rendering engine (src/src/renderer.ts)    *)
(* together with the configuration handlers that feed it, the sidebar      *)
(* controls, the exporter and the glyph source.                            *)
(*                                                                         *)
(* Strings the code inspects character by character (colours, text) are    *)
(* sequences of one-character strings.  Numbers the code computes with     *)
(* floating point are exact rationals <<n, d>> in lowest terms, d > 0.     *)
(* A document is the sequence of the elements generateSVG concatenates.    *)
(***************************************************************************)
EXTENDS Integers, Sequences, FiniteSets, TLC

VARIABLES
  config,            \* the object IconRenderer holds in this.config
  iconsCache,        \* the icon catalogue loaded so far
  measureAvailable,  \* canvas.getContext('2d') yields a context
  measureThrows,     \* ctx.measureText raises an exception
  docs,              \* what generateSVG(size) returned, per size
  containers,        \* children of the preview elements, per preview size
  reference,         \* baseSvg of the latest renderToMultipleElements call
  layoutRuns,        \* generateSVG calls made by that call
  url,               \* the c parameter of window.location
  errorShown,        \* the config modal shows its error line
  iconSelectorShown, \* display of the icon selector control
  emojiSelectorShown,\* display of the emoji selector control
  lastWrite,         \* how the fields this.config reads were last changed
  lastCall,          \* the handler that ran last and what it was given
  displayed,         \* the value each sidebar control shows
  disabledControls,  \* the sidebar controls that are disabled
  iconLists,         \* the lists getAllIcons has returned, in call order
  pngExport,         \* the exportPNG call in progress and what it produced
  packExport         \* the exportFaviconPack call in progress and its files

rendererVars == <<config, iconsCache, measureAvailable, measureThrows, docs>>

appVars ==
  <<containers, reference, layoutRuns, url, errorShown, iconSelectorShown,
    emojiSelectorShown, lastWrite, lastCall, displayed, disabledControls>>

exportVars == <<iconLists, pngExport, packExport>>

vars == <<rendererVars, appVars, exportVars>>

-----------------------------------------------------------------------------
(* Exact arithmetic                                                        *)

Abs(n) == IF n < 0 THEN -n ELSE n

RECURSIVE GCD(_, _)
GCD(a, b) == IF b = 0 THEN a ELSE GCD(b, a % b)

Rat(n, d) ==
  LET s == IF d < 0 THEN -1 ELSE 1
      g == GCD(Abs(n), Abs(d))
  IN  IF n = 0 THEN <<0, 1>> ELSE <<(s * n) \div g, (s * d) \div g>>

RInt(n) == <<n, 1>>

RAdd(a, b) == Rat(a[1] * b[2] + b[1] * a[2], a[2] * b[2])
RSub(a, b) == Rat(a[1] * b[2] - b[1] * a[2], a[2] * b[2])
RMul(a, b) == Rat(a[1] * b[1], a[2] * b[2])
RDiv(a, b) == Rat(a[1] * b[2], a[2] * b[1])
RLe(a, b)  == a[1] * b[2] <= b[1] * a[2]
RLt(a, b)  == a[1] * b[2] < b[1] * a[2]
RMin(a, b) == IF RLe(a, b) THEN a ELSE b

-----------------------------------------------------------------------------
(* Bounds of the model                                                     *)

\* generateSVG is called with size = SizeUnit * k, k \in 1..MaxScale
MaxScale == 2

\* Texts are all character sequences of at most MaxTextLen characters
MaxTextLen == 4

\* Longest text made of the characters escapeXml replaces
MaxEscapeLen == 2

\* Sizes generateSVG is called with are multiples of the smallest favicon size
SizeUnit == 16

Sizes == {SizeUnit * k : k \in 1..MaxScale}

-----------------------------------------------------------------------------
(* Strings as character sequences                                          *)

NL == "\n"

\* An optional string field that is absent from the configuration object
Undefined == <<"undefined">>

\* An optional number field that is absent from the configuration object
NoNum == -1

HexDigits ==
  {"0", "1", "2", "3", "4", "5", "6", "7", "8", "9",
   "a", "b", "c", "d", "e", "f", "A", "B", "C", "D", "E", "F"}

HexVal(c) ==
  CASE c = "0" -> 0 [] c = "1" -> 1 [] c = "2" -> 2 [] c = "3" -> 3
    [] c = "4" -> 4 [] c = "5" -> 5 [] c = "6" -> 6 [] c = "7" -> 7
    [] c = "8" -> 8 [] c = "9" -> 9
    [] c \in {"a", "A"} -> 10 [] c \in {"b", "B"} -> 11
    [] c \in {"c", "C"} -> 12 [] c \in {"d", "D"} -> 13
    [] c \in {"e", "E"} -> 14 [] c \in {"f", "F"} -> 15

\* The character sequences of length at most n over the alphabet
RECURSIVE SeqsUpTo(_, _)
SeqsUpTo(alphabet, n) ==
  IF n = 0 THEN {<<>>}
  ELSE LET shorter == SeqsUpTo(alphabet, n - 1)
       IN  shorter \cup {Append(s, c) : s \in shorter, c \in alphabet}

\* JavaScript's x || fallback on optional strings and numbers
OrStr(s, fallback) == IF s = Undefined \/ s = <<>> THEN fallback ELSE s
OrNum(n, fallback) == IF n = NoNum \/ n = 0 THEN fallback ELSE n

\* String.prototype.split('\n')
RECURSIVE Split(_)
Split(s) ==
  IF \A i \in 1..Len(s) : s[i] # NL THEN <<s>>
  ELSE LET i == CHOOSE j \in 1..Len(s) :
                  s[j] = NL /\ \A h \in 1..(j - 1) : s[h] # NL
       IN  <<SubSeq(s, 1, i - 1)>> \o Split(SubSeq(s, i + 1, Len(s)))

\* line.trim() is a non-empty string
NonBlank(line) == \E i \in 1..Len(line) : line[i] \notin {" ", NL}

-----------------------------------------------------------------------------
(* Configurations (src/src/types.ts, PARAMETERS in src/src/main.ts)        *)

BackgroundTypes == {"solid", "transparent", "linear-gradient", "radial-gradient"}
ForegroundTypes == {"text", "emoji", "emoji-mono", "icon"}

ColorIndigo    == <<"#", "3", "0", "3", "F", "9", "F">>
ColorIndigo80  == ColorIndigo \o <<"8", "0">>
ColorIndigo03  == ColorIndigo \o <<"0", "3">>
ColorIndigo02  == ColorIndigo \o <<"0", "2">>
ColorIndigo00  == ColorIndigo \o <<"0", "0">>
ColorLavender  == <<"#", "7", "9", "8", "6", "C", "B">>
ColorGrey      == <<"#", "E", "0", "E", "0", "E", "0">>
ColorRgba      == <<"r", "g", "b", "a", "(", "0", ",", "0", ",", "0", ",", "0", ")">>

\* Undefined: a configuration object whose required background.color is missing
BackgroundColors ==
  {ColorIndigo, ColorIndigo80, ColorIndigo03, ColorIndigo02, ColorIndigo00, ColorRgba,
   Undefined}
GradientColors == {Undefined, <<>>, ColorLavender}
GradientAngles == {NoNum, 0, 45}
GradientSizes  == {NoNum, 50}
BorderRadii    == {NoNum, 0, 10}

TextAlphabet == {"A", " ", NL}
Texts        == SeqsUpTo(TextAlphabet, MaxTextLen) \cup {Undefined}
Emojis       == {Undefined, <<"E">>, <<"E", NL, "E">>}
IconNames    == {Undefined, <<>>, <<"heart">>, <<"heart-filled">>, <<"nope">>}
SizePercents == {NoNum, 0, 50, 90, 150}
FontFamilies == {"", "serif"}

BackgroundConfigs ==
  [type : BackgroundTypes, color : BackgroundColors, gradientColor : GradientColors,
   gradientAngle : GradientAngles, gradientSize : GradientSizes,
   borderRadius : BorderRadii]

\* The fields of the active content kind vary over their whole domain, the
\* fields of the other kinds over two values
TextForegrounds ==
  [type : {"text"}, color : {ColorGrey}, text : Texts, emoji : {<<"E">>},
   iconName : {<<"heart">>}, size : SizePercents, fontFamily : FontFamilies,
   fontWeight : {"bold"}, fontStyle : {"normal"}, textDecoration : {"none"},
   monospace : BOOLEAN]

EmojiForegrounds ==
  [type : {"emoji", "emoji-mono"}, color : {ColorGrey}, text : {Undefined, <<"A">>},
   emoji : Emojis, iconName : {<<"heart">>}, size : SizePercents,
   fontFamily : {"serif"}, fontWeight : {"bold"}, fontStyle : {"normal"},
   textDecoration : {"none"}, monospace : BOOLEAN]

IconForegrounds ==
  [type : {"icon"}, color : {ColorGrey}, text : {Undefined, <<"A">>},
   emoji : {<<"E">>}, iconName : IconNames, size : SizePercents,
   fontFamily : {"serif"}, fontWeight : {"bold"}, fontStyle : {"normal"},
   textDecoration : {"none"}, monospace : BOOLEAN]

ForegroundConfigs == TextForegrounds \cup EmojiForegrounds \cup IconForegrounds

\* Text and emoji contents made of the characters XML reserves, and contents
\* that already look like character references
EscapeAlphabet == {"&", "<", ">", "\"", "'"}

EscapeTexts ==
  SeqsUpTo(EscapeAlphabet, MaxEscapeLen)
    \cup {<<"&", "l", "t", ";">>, <<"A", "&", "a", "m", "p", ";">>, <<"<", NL, "&", "A">>}

\* buildDefaultConfig(): every parameter at its defaultValue
DefaultBackground ==
  [type |-> "linear-gradient", color |-> ColorIndigo, gradientColor |-> ColorLavender,
   gradientAngle |-> 45, gradientSize |-> 50, borderRadius |-> 10]

DefaultForeground ==
  [type |-> "text", color |-> ColorGrey, text |-> <<"Y", "A", NL, "I", "G">>,
   emoji |-> <<"E">>, iconName |-> <<"heart">>, size |-> 90, fontFamily |-> "serif",
   fontWeight |-> "bold", fontStyle |-> "normal", textDecoration |-> "none",
   monospace |-> TRUE]

buildDefaultConfig == [background |-> DefaultBackground, foreground |-> DefaultForeground]

EscapeForegrounds ==
  {[DefaultForeground EXCEPT !.text = t, !.monospace = m] :
     t \in EscapeTexts, m \in BOOLEAN}
    \cup {[DefaultForeground EXCEPT !.type = "emoji", !.emoji = t] : t \in EscapeTexts}

-----------------------------------------------------------------------------
(* Glyph source (icons part of src/src/exporter.ts)                        *)

\* createSvgFromPaths: the root attributes of an outline or a filled glyph
createSvgFromPaths(name, filled) ==
  IF filled
  THEN [width |-> RInt(24), height |-> RInt(24), fill |-> "currentColor", paths |-> name]
  ELSE [width |-> RInt(24), height |-> RInt(24), fill |-> "none",
        stroke |-> "currentColor", strokeWidth |-> 2, paths |-> name]

\* The catalogue getAllIcons puts in iconsCache: outline glyphs under their
\* name, filled glyphs under name-filled
IconCatalogue ==
  (<<"heart">> :> createSvgFromPaths(<<"heart">>, FALSE)) @@
  (<<"heart-filled">> :> createSvgFromPaths(<<"heart">>, TRUE))

EmptyCache == [n \in {} |-> 0]

\* The names of the two bundled node files and how they are spelled
IconsOutline == {<<"heart">>}
IconsFilled  == {<<"heart">>}

Spelling ==
  (<<"heart">> :> <<"h", "e", "a", "r", "t">>) @@
  (<<"heart-filled">> :> <<"h", "e", "a", "r", "t", "-", "f", "i", "l", "l", "e", "d">>)

\* `${name}-filled`
FilledName(name) ==
  CHOOSE k \in DOMAIN Spelling :
    Spelling[k] = Spelling[name] \o <<"-", "f", "i", "l", "l", "e", "d">>

\* a.localeCompare(b) < 0: punctuation sorts before letters, a prefix before
\* its extensions
CharOrder ==
  <<"-", "a", "b", "c", "d", "e", "f", "g", "h", "i", "j", "k", "l", "m", "n",
    "o", "p", "q", "r", "s", "t", "u", "v", "w", "x", "y", "z">>

CharRank(c) == CHOOSE i \in 1..Len(CharOrder) : CharOrder[i] = c

RECURSIVE SpelledBefore(_, _)
SpelledBefore(a, b) ==
  IF a = <<>> THEN b # <<>>
  ELSE IF b = <<>> THEN FALSE
  ELSE IF Head(a) = Head(b) THEN SpelledBefore(Tail(a), Tail(b))
  ELSE CharRank(Head(a)) < CharRank(Head(b))

SortByName(icons) ==
  SortSeq(icons, LAMBDA x, y : SpelledBefore(Spelling[x.name], Spelling[y.name]))

\* A set of records as a sequence, in any order
RECURSIVE SeqOf(_)
SeqOf(S) == IF S = {} THEN <<>>
            ELSE LET x == CHOOSE y \in S : TRUE IN <<x>> \o SeqOf(S \ {x})

\* getIconSvg: iconsCache.get(iconName) || null
HasIcon(cache, iconName) == iconName \in DOMAIN cache
getIconSvg(cache, iconName) == cache[iconName]

-----------------------------------------------------------------------------
(* Text measurement oracle (canvas 2D context)                             *)

\* Advance width of a character in hundredths of the font size
CharEm(c, fontFamily) ==
  IF c = " " THEN 30
  ELSE IF fontFamily = "serif" THEN 60 ELSE 70

RECURSIVE LineEm(_, _)
LineEm(line, fontFamily) ==
  IF line = <<>> THEN 0
  ELSE CharEm(Head(line), fontFamily) + LineEm(Tail(line), fontFamily)

\* ctx.font = `${fontSize}px ${fontFamily}`; ctx.measureText(text).width
measureText(line, fontSize, fontFamily) ==
  RMul(fontSize, Rat(LineEm(line, fontFamily), 100))

-----------------------------------------------------------------------------
(* IconRenderer (src/src/renderer.ts)                                      *)

\* text.replace(/c/g, replacement)
RECURSIVE ReplaceAll(_, _, _)
ReplaceAll(s, c, replacement) ==
  IF s = <<>> THEN <<>>
  ELSE (IF Head(s) = c THEN replacement ELSE <<Head(s)>>)
         \o ReplaceAll(Tail(s), c, replacement)

\* Mutant: the ampersand is replaced last, after the references are written
escapeXml_AmpersandLast(text) ==
  LET lt   == ReplaceAll(text, "<", <<"&", "l", "t", ";">>)
      gt   == ReplaceAll(lt, ">", <<"&", "g", "t", ";">>)
      quot == ReplaceAll(gt, "\"", <<"&", "q", "u", "o", "t", ";">>)
      apos == ReplaceAll(quot, "'", <<"&", "a", "p", "o", "s", ";">>)
  IN  ReplaceAll(apos, "&", <<"&", "a", "m", "p", ";">>)

\* The five replacements of escapeXml, the ampersand first
escapeXml(text) ==
  LET amp  == ReplaceAll(text, "&", <<"&", "a", "m", "p", ";">>)
      lt   == ReplaceAll(amp, "<", <<"&", "l", "t", ";">>)
      gt   == ReplaceAll(lt, ">", <<"&", "g", "t", ";">>)
      quot == ReplaceAll(gt, "\"", <<"&", "q", "u", "o", "t", ";">>)
  IN  ReplaceAll(quot, "'", <<"&", "a", "p", "o", "s", ";">>)

\* Mutant: without a 2D context the width is estimated as
\* 0.6 x fontSize x line.length and the largest fitting size is returned
calculateFontSize_CharCountHeuristic(line, maxSize, fontFamily, ctx) ==
  IF ~ctx THEN RDiv(maxSize, Rat(60 * Len(line), 100))
  ELSE LET width == measureText(line, maxSize, fontFamily)
       IN  IF RLt(maxSize, width) THEN RMul(RDiv(maxSize, width), maxSize)
           ELSE maxSize

\* Mutant: the font size is not scaled down for a line wider than maxSize
calculateFontSize_NoScale(line, maxSize, fontFamily, ctx) ==
  IF ~ctx THEN RMul(maxSize, Rat(65, 100)) ELSE maxSize

\* Font size at which the line is as wide as maxSize, never above maxSize;
\* without a 2D context a fixed share of maxSize
calculateFontSize(line, maxSize, fontFamily, ctx) ==
  IF ~ctx THEN RMul(maxSize, Rat(65, 100))
  ELSE LET width == measureText(line, maxSize, fontFamily)
       IN  IF RLt(maxSize, width) THEN RMul(RDiv(maxSize, width), maxSize)
           ELSE maxSize

\* Root of the glyph with position, size and stroke colour overwritten
generateIconSVG(glyph, size, color, iconSize) ==
  LET offset == RDiv(RSub(RInt(size), iconSize), RInt(2))
  IN  <<("tag" :> "icon") @@ ("x" :> offset) @@ ("y" :> offset) @@
        ("width" :> iconSize) @@ ("height" :> iconSize) @@ ("stroke" :> color) @@
        glyph>>

\* JavaScript's x || fallback on font attribute names
OrName(s, fallback) == IF s = "" THEN fallback ELSE s

DefaultEmoji == <<"palette">>

EmojiMonoFamily  == "\"Noto Emoji\", \"Segoe UI Symbol\", \"Noto Color Emoji\""
EmojiColorFamily == "\"Noto Color Emoji\", \"Segoe UI Emoji\""

\* fontFamily.replace(/"/g, '') on the two emoji families
FontFamilyForStyle(fontFamily) ==
  IF fontFamily = EmojiMonoFamily THEN "Noto Emoji, Segoe UI Symbol, Noto Color Emoji"
  ELSE IF fontFamily = EmojiColorFamily THEN "Noto Color Emoji, Segoe UI Emoji"
  ELSE fontFamily

IsEmojiType(type) == type \in {"emoji", "emoji-mono"}

\* maxSize = size * ((foreground.size || 80) / 100)
MaxSize(fg, size) == Rat(size * OrNum(fg.size, 80), 100)

ForegroundFontFamily(fg) ==
  IF fg.type = "emoji-mono" THEN EmojiMonoFamily
  ELSE IF fg.type = "emoji" THEN EmojiColorFamily
  ELSE OrName(fg.fontFamily, "sans-serif")

TextContent(fg) ==
  IF IsEmojiType(fg.type) THEN OrStr(fg.emoji, DefaultEmoji)
  ELSE OrStr(fg.text, <<" ">>)

\* Mutant: the monospace grid is entered for every kind that has lines
MonospaceMode_AnyKind(fg) == fg.monospace

\* monospace && type === 'text'
MonospaceMode(fg) == fg.monospace /\ fg.type = "text"

\* Math.max(...lines.map(line => line.length))
RECURSIVE LongestLineLength(_)
LongestLineLength(lines) ==
  IF Len(lines) = 1 THEN Len(lines[1])
  ELSE LET rest == LongestLineLength(Tail(lines))
       IN  IF Len(lines[1]) >= rest THEN Len(lines[1]) ELSE rest

\* lines.forEach: fontSize = min(fontSize, calculateFontSize(line)) on non-blank lines
RECURSIVE WidthBoundFontSize(_, _, _, _, _)
WidthBoundFontSize(lines, fontSize, maxSize, fontFamily, ctx) ==
  IF lines = <<>> THEN fontSize
  ELSE LET next == IF NonBlank(Head(lines))
                   THEN RMin(fontSize,
                             calculateFontSize(Head(lines), maxSize, fontFamily, ctx))
                   ELSE fontSize
       IN  WidthBoundFontSize(Tail(lines), next, maxSize, fontFamily, ctx)

\* Mutant: the first line instead of the longest line governs the column width
CharWidth_FirstLine(fg, size) ==
  LET lines == Split(TextContent(fg))
  IN  IF MonospaceMode(fg) /\ LongestLineLength(lines) > 0
      THEN IF Len(lines[1]) > 0
           THEN RDiv(MaxSize(fg, size), RInt(Len(lines[1])))
           ELSE MaxSize(fg, size)
      ELSE RInt(0)

\* charWidth of the monospace grid; 0 when every line is empty
CharWidth(fg, size) ==
  LET lines == Split(TextContent(fg))
      longestLineLength == LongestLineLength(lines)
  IN  IF MonospaceMode(fg) /\ longestLineLength > 0
      THEN RDiv(MaxSize(fg, size), RInt(longestLineLength))
      ELSE RInt(0)

\* Mutant: the monospace font size ignores the height budget
FontSize_WidthOnly(fg, ctx, size) ==
  LET maxSize == MaxSize(fg, size)
      lines   == Split(TextContent(fg))
  IN  IF MonospaceMode(fg)
      THEN IF LongestLineLength(lines) > 0 THEN CharWidth(fg, size) ELSE maxSize
      ELSE RMin(WidthBoundFontSize(lines, maxSize, maxSize,
                                   ForegroundFontFamily(fg), ctx),
                RDiv(maxSize, RInt(Len(lines))))

\* fontSize of the text and emoji kinds
FontSize(fg, ctx, size) ==
  LET maxSize   == MaxSize(fg, size)
      lines     == Split(TextContent(fg))
      lineCount == Len(lines)
      longestLineLength == LongestLineLength(lines)
      maxFontSizeByHeight == RDiv(maxSize, RInt(lineCount))
  IN  IF MonospaceMode(fg)
      THEN IF longestLineLength > 0
           THEN RMin(maxFontSizeByHeight, CharWidth(fg, size))
           ELSE maxSize
      ELSE RMin(WidthBoundFontSize(lines, maxSize, maxSize,
                                   ForegroundFontFamily(fg), ctx),
                maxFontSizeByHeight)

\* Baseline of the first line: block centred on the canvas, ascent 0.85 em
FirstLineY(lineCount, fontSize, size) ==
  LET totalTextHeight == RMul(RInt(lineCount), fontSize)
      textBlockTop    == RDiv(RSub(RInt(size), totalTextHeight), RInt(2))
      ascent          == RMul(fontSize, Rat(85, 100))
  IN  RAdd(textBlockTop, ascent)

TextStyle(fg) ==
  [fontWeight     |-> OrName(fg.fontWeight, "normal"),
   fontStyle      |-> OrName(fg.fontStyle, "normal"),
   textDecoration |-> OrName(fg.textDecoration, "none")]

\* One <text> element per character of the line, charWidth apart
MonospaceLine(line, lineIndex, fg, ctx, size) ==
  LET fontSize  == FontSize(fg, ctx, size)
      charWidth == CharWidth(fg, size)
      lineCount == Len(Split(TextContent(fg)))
      lineY     == RAdd(FirstLineY(lineCount, fontSize, size),
                        RMul(RInt(lineIndex), fontSize))
      lineWidth == RMul(charWidth, RInt(Len(line)))
      startX    == RSub(Rat(size, 2), RDiv(lineWidth, RInt(2)))
  IN  [charIndex \in 1..Len(line) |->
         [tag |-> "text",
          x |-> RAdd(RAdd(startX, RMul(RInt(charIndex - 1), charWidth)),
                     RDiv(charWidth, RInt(2))),
          y |-> lineY, fontSize |-> fontSize, fill |-> fg.color,
          fontFamily |-> ForegroundFontFamily(fg), style |-> TextStyle(fg),
          content |-> escapeXml(<<line[charIndex]>>)]]

RECURSIVE MonospaceLines(_, _, _, _, _)
MonospaceLines(lines, lineIndex, fg, ctx, size) ==
  IF lineIndex >= Len(lines) THEN <<>>
  ELSE MonospaceLine(lines[lineIndex + 1], lineIndex, fg, ctx, size)
         \o MonospaceLines(lines, lineIndex + 1, fg, ctx, size)

\* foreignObject square of edge maxSize with one <div> per line
EmojiElement(fg, ctx, size) ==
  LET maxSize  == MaxSize(fg, size)
      lines    == Split(TextContent(fg))
      fontSize == FontSize(fg, ctx, size)
      offset   == RDiv(RSub(RInt(size), maxSize), RInt(2))
  IN  [tag |-> "foreignObject", x |-> offset, y |-> offset,
       width |-> maxSize, height |-> maxSize,
       divs |-> [i \in 1..Len(lines) |->
                   [fontFamily |-> FontFamilyForStyle(ForegroundFontFamily(fg)),
                    fontSize |-> fontSize,
                    lineHeight |-> RMul(maxSize, Rat(93, 100)),
                    color |-> fg.color, content |-> escapeXml(lines[i])]]]

\* One <text> element with one <tspan> per line
TextElement(fg, ctx, size) ==
  LET lines    == Split(TextContent(fg))
      fontSize == FontSize(fg, ctx, size)
  IN  [tag |-> "text", x |-> "50%", y |-> FirstLineY(Len(lines), fontSize, size),
       fontSize |-> fontSize, fill |-> fg.color,
       fontFamily |-> ForegroundFontFamily(fg), style |-> TextStyle(fg),
       tspans |-> [i \in 1..Len(lines) |->
                     [x |-> "50%", dy |-> IF i = 1 THEN RInt(0) ELSE fontSize,
                      content |-> escapeXml(lines[i])]]]

\* Mutant: an icon kind without a glyph falls through to the text branch
generateForegroundSVG_MissingIconAsText(cfg, cache, ctx, size) ==
  LET fg == cfg.foreground
  IN  IF fg.type = "icon" /\ fg.iconName # Undefined /\ fg.iconName # <<>>
           /\ HasIcon(cache, fg.iconName)
      THEN generateIconSVG(getIconSvg(cache, fg.iconName), size, fg.color,
                           MaxSize(fg, size))
      ELSE IF MonospaceMode(fg) /\ RLt(RInt(0), CharWidth(fg, size))
      THEN MonospaceLines(Split(TextContent(fg)), 0, fg, ctx, size)
      ELSE IF IsEmojiType(fg.type) THEN <<EmojiElement(fg, ctx, size)>>
      ELSE <<TextElement(fg, ctx, size)>>

\* The fragment of the active content kind; an icon kind whose name is empty
\* or has no glyph in the cache emits nothing
generateForegroundSVG(cfg, cache, ctx, size) ==
  LET fg == cfg.foreground
  IN  IF fg.type \in {"text", "emoji", "emoji-mono"}
      THEN IF MonospaceMode(fg) /\ RLt(RInt(0), CharWidth(fg, size))
           THEN MonospaceLines(Split(TextContent(fg)), 0, fg, ctx, size)
           ELSE IF IsEmojiType(fg.type) THEN <<EmojiElement(fg, ctx, size)>>
           ELSE <<TextElement(fg, ctx, size)>>
      ELSE IF fg.type = "icon" /\ fg.iconName # Undefined /\ fg.iconName # <<>>
                /\ HasIcon(cache, fg.iconName)
           THEN generateIconSVG(getIconSvg(cache, fg.iconName), size, fg.color,
                                MaxSize(fg, size))
           ELSE <<>>

UrlBgGradient ==
  <<"u", "r", "l", "(", "#", "b", "g", "G", "r", "a", "d", "i", "e", "n", "t", ")">>

ColorBlack == <<"#", "0", "0", "0", "0", "0", "0">>

IsGradientType(type) == type \in {"linear-gradient", "radial-gradient"}

Truthy(s) == s # Undefined /\ s # <<>>

\* fill.match(/#[0-9a-fA-F]{8}$/)
MatchesHex8(fill) ==
  /\ Len(fill) >= 9
  /\ fill[Len(fill) - 8] = "#"
  /\ \A i \in (Len(fill) - 7)..Len(fill) : fill[i] \in HexDigits

\* Mutant: the alpha byte divided by 256
SliceAlpha_Div256(fill) ==
  Rat(16 * HexVal(fill[Len(fill) - 1]) + HexVal(fill[Len(fill)]), 256)

\* parseInt(fill.slice(-2), 16) / 255
SliceAlpha(fill) ==
  Rat(16 * HexVal(fill[Len(fill) - 1]) + HexVal(fill[Len(fill)]), 255)

\* Mutant: the definitions block is emitted for every gradient kind, with or
\* without a second colour
GradientDefs_WithoutSecondColour(bg) ==
  IF bg.type = "linear-gradient"
  THEN <<[tag |-> "defs", gradient |-> "linearGradient", id |-> "bgGradient",
          angle |-> OrNum(bg.gradientAngle, 0),
          stops |-> <<bg.color, bg.gradientColor>>]>>
  ELSE IF bg.type = "radial-gradient"
  THEN <<[tag |-> "defs", gradient |-> "radialGradient", id |-> "bgGradient",
          r |-> OrNum(bg.gradientSize, 50),
          stops |-> <<bg.color, bg.gradientColor>>]>>
  ELSE <<>>

\* Gradient definitions block, when the kind is a gradient with a second colour.
\* The end points 50 +/- 50 cos(angle), 50 +/- 50 sin(angle) are percentages
\* that depend on the angle alone; they are kept as the angle.
GradientDefs(bg) ==
  IF bg.type = "linear-gradient" /\ Truthy(bg.gradientColor)
  THEN <<[tag |-> "defs", gradient |-> "linearGradient", id |-> "bgGradient",
          angle |-> OrNum(bg.gradientAngle, 0),
          stops |-> <<bg.color, bg.gradientColor>>]>>
  ELSE IF bg.type = "radial-gradient" /\ Truthy(bg.gradientColor)
  THEN <<[tag |-> "defs", gradient |-> "radialGradient", id |-> "bgGradient",
          r |-> OrNum(bg.gradientSize, 50),
          stops |-> <<bg.color, bg.gradientColor>>]>>
  ELSE <<>>

\* The fill value of the background rect
BackgroundFill(bg) == IF IsGradientType(bg.type) THEN UrlBgGradient ELSE bg.color

\* alpha: 0 for transparent, the last two hex digits of an 8-digit fill / 255,
\* 1.0 otherwise
BackgroundAlpha(bg) ==
  IF bg.type = "transparent" THEN RInt(0)
  ELSE IF MatchesHex8(BackgroundFill(bg)) THEN SliceAlpha(BackgroundFill(bg))
  ELSE RInt(1)

\* Mutant: the corner radius percentage is used as a length
BackgroundRect_RadiusUnscaled(bg, size) ==
  LET borderRadius == RInt(OrNum(bg.borderRadius, 0))
  IN  IF bg.type = "transparent" THEN <<>>
      ELSE IF RLt(RInt(0), borderRadius)
      THEN <<[tag |-> "rect", width |-> RInt(size), height |-> RInt(size),
              rx |-> borderRadius, ry |-> borderRadius,
              fill |-> BackgroundFill(bg), fillOpacity |-> BackgroundAlpha(bg)]>>
      ELSE <<[tag |-> "rect", width |-> RInt(size), height |-> RInt(size),
              fill |-> BackgroundFill(bg), fillOpacity |-> BackgroundAlpha(bg)]>>

BackgroundRect(bg, size) ==
  LET borderRadius == Rat(OrNum(bg.borderRadius, 0) * size, 100)
  IN  IF bg.type = "transparent" THEN <<>>
      ELSE IF RLt(RInt(0), borderRadius)
      THEN <<[tag |-> "rect", width |-> RInt(size), height |-> RInt(size),
              rx |-> borderRadius, ry |-> borderRadius,
              fill |-> BackgroundFill(bg), fillOpacity |-> BackgroundAlpha(bg)]>>
      ELSE <<[tag |-> "rect", width |-> RInt(size), height |-> RInt(size),
              fill |-> BackgroundFill(bg), fillOpacity |-> BackgroundAlpha(bg)]>>

Marker(x, y) ==
  [tag |-> "rect", width |-> RInt(1), height |-> RInt(1), y |-> y, x |-> x,
   fill |-> ColorBlack, fillOpacity |-> Rat(1, 100)]

\* Two near-invisible 1x1 rects at opposite corners when alpha <= 0.01
Markers(bg, size) ==
  IF RLe(BackgroundAlpha(bg), Rat(1, 100))
  THEN <<Marker(RInt(size), RInt(size)), Marker(RInt(0), RInt(0))>>
  ELSE <<>>

SvgOpen(size) ==
  [tag |-> "svg", width |-> RInt(size), height |-> RInt(size),
   viewBox |-> <<RInt(0), RInt(0), RInt(size), RInt(size)>>]

SvgClose == [tag |-> "/svg"]

\* The outcome of a call that ends in a TypeError instead of returning
Threw == <<[tag |-> "TypeError"]>>

\* Mutant: the match result is dereferenced without a null check
FillMatchThrows_Unmatched(bg) ==
  bg.type # "transparent" /\ ~MatchesHex8(BackgroundFill(bg))

\* fill.match(...) is evaluated on background.color unless the kind is
\* transparent or a gradient; it throws when the colour is missing
FillMatchThrows(bg) ==
  bg.type # "transparent" /\ ~IsGradientType(bg.type) /\ bg.color = Undefined

generateSVG(cfg, cache, ctx, size) ==
  IF FillMatchThrows(cfg.background) THEN Threw
  ELSE <<SvgOpen(size)>> \o GradientDefs(cfg.background)
         \o BackgroundRect(cfg.background, size) \o Markers(cfg.background, size)
         \o generateForegroundSVG(cfg, cache, ctx, size) \o <<SvgClose>>

-----------------------------------------------------------------------------
(* State machine                                                           *)

\* Backgrounds under the default foreground, foregrounds under the default
\* background, and both varied over their kinds, colours and contents
CrossBackgrounds ==
  {b \in BackgroundConfigs :
     /\ b.gradientColor = ColorLavender /\ b.gradientAngle = 45
     /\ b.gradientSize = 50 /\ b.borderRadius = 10
     /\ b.color \in {ColorIndigo, ColorIndigo00, Undefined}}

CrossForegrounds ==
  {f \in ForegroundConfigs :
     /\ f.text \in {<<"A">>, <<NL>>, <<"A", "A", NL, "A">>} /\ f.emoji = <<"E">>
     /\ f.iconName \in {Undefined, <<>>, <<"heart">>, <<"nope">>}
     /\ f.size \in {50, 150} /\ f.fontFamily = "serif"}

RenderConfigs ==
  {[background |-> b, foreground |-> DefaultForeground] : b \in BackgroundConfigs}
    \cup {[background |-> DefaultBackground, foreground |-> f] :
            f \in ForegroundConfigs \cup EscapeForegrounds}
    \cup {[background |-> b, foreground |-> f] :
            b \in CrossBackgrounds, f \in CrossForegrounds}

\* name.replace(/-/g, ' ')
Spaced(name) == ReplaceAll(Spelling[name], "-", <<" ">>)

\* The entries the load branch of getAllIcons pushes: the outline glyphs
\* under their name, the filled glyphs under name-filled with the display
\* name "<name> (filled)"
OutlineEntries ==
  {[name |-> n, displayName |-> Spaced(n), svg |-> createSvgFromPaths(n, FALSE)] :
     n \in IconsOutline}

FilledEntries ==
  {[name |-> FilledName(n),
    displayName |-> Spaced(n) \o <<" ", "(", "f", "i", "l", "l", "e", "d", ")">>,
    svg |-> createSvgFromPaths(n, TRUE)] : n \in IconsFilled}

\* An entry of the cached branch: the display name is derived from the key
CachedEntry(cache, n) == [name |-> n, displayName |-> Spaced(n), svg |-> cache[n]]

\* getAllIcons(): the list it returns and the cache it leaves.  A filled
\* cache is listed in the order of its insertion, which is the sorted order
\* of the load branch.
getAllIcons(cache) ==
  IF cache # EmptyCache
  THEN [icons |-> SortByName(SeqOf({CachedEntry(cache, n) : n \in DOMAIN cache})),
        cache |-> cache]
  ELSE LET icons == SortByName(SeqOf(OutlineEntries) \o SeqOf(FilledEntries))
       IN  [icons |-> icons,
            cache |-> [n \in {icons[i].name : i \in DOMAIN icons} |->
                         (CHOOSE e \in OutlineEntries \cup FilledEntries :
                            e.name = n).svg]]

NoDoc == <<>>

\* generateSVG reaches ctx.measureText: a text or emoji kind outside
\* monospace mode with a non-blank line, and a 2D context to measure with
CallsMeasureText(cfg, ctx) ==
  /\ ctx
  /\ cfg.foreground.type \in {"text", "emoji", "emoji-mono"}
  /\ ~MonospaceMode(cfg.foreground)
  /\ \E l \in 1..Len(Split(TextContent(cfg.foreground))) :
       NonBlank(Split(TextContent(cfg.foreground))[l])

PreviewSizes == {512, 64, 32, 24, 16}

NoParam == [none |-> TRUE]
NoCall  == [handler |-> "none", input |-> NoParam, reported |-> FALSE]

\* The renderer on its own: no page, no preview elements, no handlers
NoApp ==
  /\ containers = [s \in PreviewSizes |-> <<>>]
  /\ reference = NoDoc
  /\ layoutRuns = 0
  /\ url = NoParam
  /\ errorShown = FALSE
  /\ iconSelectorShown = FALSE
  /\ emojiSelectorShown = FALSE
  /\ lastWrite = "constructor"
  /\ lastCall = NoCall
  /\ displayed = <<>>
  /\ disabledControls = {}

\* No export has been started
NoPng  == [stage |-> "idle"]
NoPack == [stage |-> "idle"]

NoExport ==
  /\ pngExport = NoPng
  /\ packExport = NoPack

\* The most getAllIcons calls followed
MaxIconCalls == 2

-----------------------------------------------------------------------------
(* Configuration objects and their JSON text (src/src/main.ts)             *)

BackgroundKeys == DOMAIN DefaultBackground
ForegroundKeys == DOMAIN DefaultForeground
SectionNames   == {"background", "foreground"}

KeysOf(section) == IF section = "background" THEN BackgroundKeys ELSE ForegroundKeys

\* What reading an absent property yields, in the encoding of each field
UndefinedOf(key) ==
  CASE key = "type" -> "undefined"
    [] key \in {"color", "gradientColor", "text", "emoji", "iconName"} -> Undefined
    [] key \in {"gradientAngle", "gradientSize", "borderRadius", "size"} -> NoNum
    [] key = "monospace" -> FALSE
    [] OTHER -> ""

\* obj.background or obj.foreground is undefined
MissingSection == [missing |-> TRUE]
IsMissing(section) == "missing" \in DOMAIN section

\* {}: every property of the section absent
EmptySection(section) == [key \in KeysOf(section) |-> UndefinedOf(key)]

\* JSON.stringify: the defined properties of the sections that exist
JsonStringify(obj) ==
  [section \in {n \in SectionNames : ~IsMissing(obj[n])} |->
     [key \in {k \in KeysOf(section) : obj[section][k] # UndefinedOf(k)} |->
        obj[section][key]]]

\* A text JSON.parse throws on
Unparseable == [unparseable |-> TRUE]

\* JSON.parse of the text of an object
JsonParse(json) ==
  [section \in SectionNames |->
     IF section \in DOMAIN json
     THEN [key \in KeysOf(section) |->
             IF key \in DOMAIN json[section] THEN json[section][key]
             ELSE UndefinedOf(key)]
     ELSE MissingSection]

\* Base64 of the JSON text; the text is kept
encodeConfigToURL(cfg) == JsonStringify(cfg)

Null == [null |-> TRUE]

\* null when atob or JSON.parse throws
decodeConfigFromURL(encoded) ==
  IF encoded = Unparseable THEN Null ELSE JsonParse(encoded)

\* {...defaultConfig, ...decoded}: whole sections of the URL's object replace
\* the default sections
getInitialConfig(param) ==
  IF param = NoParam THEN buildDefaultConfig
  ELSE LET decoded == decodeConfigFromURL(param)
       IN  IF decoded = Null THEN buildDefaultConfig
           ELSE [section \in SectionNames |->
                   IF IsMissing(decoded[section]) THEN buildDefaultConfig[section]
                   ELSE decoded[section]]

\* setNestedValue(obj, "section.key", value), creating the section if absent
setNestedValue(obj, section, key, value) ==
  LET target == IF IsMissing(obj[section]) THEN EmptySection(section)
                ELSE obj[section]
  IN  [obj EXCEPT ![section] = [target EXCEPT ![key] = value]]

\* Objects a user pastes into the config modal or puts behind ?c=
SolidBackground ==
  [DefaultBackground EXCEPT !.type = "solid", !.gradientColor = Undefined]

EmojiForeground ==
  [DefaultForeground EXCEPT !.type = "emoji", !.monospace = FALSE]

ExternalObjects ==
  {[background |-> SolidBackground, foreground |-> EmojiForeground],
   [background |-> [SolidBackground EXCEPT !.color = Undefined],
    foreground |-> DefaultForeground],
   [background |-> MissingSection, foreground |-> EmojiForeground],
   [background |-> MissingSection, foreground |-> MissingSection]}

ExternalInputs == {Unparseable} \cup {JsonStringify(obj) : obj \in ExternalObjects}

-----------------------------------------------------------------------------
(* Rendering as a caller sees it, and the previews (src/src/renderer.ts)   *)

\* generateSVG(size): the document, or the exception that leaves it when a
\* section of the configuration or background.type is undefined, fill is
\* undefined or ctx.measureText throws
Render(cfg, cache, ctx, throws, size) ==
  IF IsMissing(cfg.background) \/ IsMissing(cfg.foreground) THEN Threw
  ELSE IF cfg.background.type = UndefinedOf("type") THEN Threw
  ELSE IF throws /\ CallsMeasureText(cfg, ctx) THEN Threw
  ELSE generateSVG(cfg, cache, ctx, size)

ReferenceSize == 512

\* cloneNode(true) with width and height set to the container's size
CloneAt(baseSvg, size) ==
  [baseSvg EXCEPT ![1].width = RInt(size), ![1].height = RInt(size)]

\* Mutant: one layout per container, at the container's size
renderToMultipleElements_LayoutPerSize(cfg, cache, ctx, throws, targets, elements) ==
  CHOOSE result \in
    {[baseSvg |-> baseSvg,
      generateSVGCalls |-> 1 + Cardinality(targets),
      elements |->
        IF baseSvg = Threw \/ baseSvg[1].tag # "svg" THEN elements
        ELSE [e \in DOMAIN elements |->
                IF e \in targets THEN <<Render(cfg, cache, ctx, throws, e)>>
                ELSE elements[e]]] :
       baseSvg \in {Render(cfg, cache, ctx, throws, ReferenceSize)}} : TRUE

\* One generateSVG(512); every target element is emptied and given a clone
\* of the parsed document.  Nothing is touched when generateSVG throws or the
\* parsed document has no svg element.
renderToMultipleElements(cfg, cache, ctx, throws, targets, elements) ==
  CHOOSE result \in
    {[baseSvg |-> baseSvg,
      generateSVGCalls |-> 1,
      elements |->
        IF baseSvg = Threw \/ baseSvg[1].tag # "svg" THEN elements
        ELSE [e \in DOMAIN elements |->
                IF e \in targets THEN <<CloneAt(baseSvg, e)>>
                ELSE elements[e]]] :
       baseSvg \in {Render(cfg, cache, ctx, throws, ReferenceSize)}} : TRUE

-----------------------------------------------------------------------------
(* The renderer on its own                                                 *)

\* new IconRenderer(initialConfig) in a browser with or without canvas 2D
\* support, before the icon catalogue is loaded
Init ==
  /\ config \in RenderConfigs
  /\ iconsCache = EmptyCache
  /\ measureAvailable \in BOOLEAN
  /\ measureThrows = FALSE
  /\ docs = [s \in Sizes |-> NoDoc]
  /\ NoApp
  /\ iconLists = <<>>
  /\ NoExport

\* getAllIcons: the first call, which fills the cache
GetAllIcons ==
  /\ iconsCache = EmptyCache
  /\ \E r \in {getAllIcons(iconsCache)} :
       /\ iconsCache' = r.cache
       /\ iconLists' = Append(iconLists, r.icons)
  /\ docs' = [s \in Sizes |-> NoDoc]
  /\ UNCHANGED <<config, measureAvailable, measureThrows>>
  /\ UNCHANGED appVars
  /\ UNCHANGED <<pngExport, packExport>>

\* renderer.generateSVG(size); the returned document is kept per size
GenerateSVG(size) ==
  /\ docs[size] = NoDoc
  /\ docs' = [docs EXCEPT ![size] =
                Render(config, iconsCache, measureAvailable, measureThrows, size)]
  /\ UNCHANGED <<config, iconsCache, measureAvailable, measureThrows>>
  /\ UNCHANGED appVars
  /\ UNCHANGED exportVars

Next ==
  \/ GetAllIcons
  \/ \E size \in Sizes : GenerateSVG(size)

Spec == Init /\ [][Next]_vars

\* The same renderer in a browser whose measureText may raise an exception
InitOracle ==
  /\ config \in RenderConfigs
  /\ iconsCache = EmptyCache
  /\ measureAvailable \in BOOLEAN
  /\ measureThrows \in {b \in BOOLEAN : b => measureAvailable}
  /\ docs = [s \in Sizes |-> NoDoc]
  /\ NoApp
  /\ iconLists = <<>>
  /\ NoExport

SpecOracle == InitOracle /\ [][Next]_vars

-----------------------------------------------------------------------------
(* The application (src/src/main.ts, src/src/ui-builder.ts)                *)
(*                                                                         *)
(* The renderer, the UI builder and every handler hold the same            *)
(* configuration object: the constructor hands initialConfig to both, Apply *)
(* and Reset hand their new object to both, setConfig stores the reference  *)
(* it is given and getConfig returns it.  A property written through any of *)
(* these references is written in the object this.config designates.        *)

EmojiChoices == {<<"E">>, <<"P">>}

\* getNestedValue(obj, "section.key"): undefined when the section is absent
getNestedValue(obj, section, key) ==
  IF IsMissing(obj[section]) THEN UndefinedOf(key) ELSE obj[section][key]

\* The sidebar controls followed here: a radio group and a colour input
Controls == {<<"foreground", "type">>, <<"background", "color">>}

ColorControls == {c \in Controls : c[2] = "color"}

\* buildUI: every control starts at the value the configuration holds
buildUI(cfg) == [c \in Controls |-> getNestedValue(cfg, c[1], c[2])]

\* updateInputValues: the inputs of class color-hex-input are given the
\* value of the configuration; no other input is touched
updateInputValues(shown, cfg) ==
  [c \in Controls |->
     IF c \in ColorControls THEN getNestedValue(cfg, c[1], c[2]) ELSE shown[c]]

\* updateControlStates: an empty method
updateControlStates(disabled, cfg) == disabled

\* updatePreviews(): the five preview elements
updatePreviews(cfg, cache) ==
  renderToMultipleElements(cfg, cache, measureAvailable, measureThrows,
                           PreviewSizes, containers)

ShowPreviews(r) ==
  /\ containers' = r.elements
  /\ reference' = r.baseSvg
  /\ layoutRuns' = r.generateSVGCalls

Called(handler, input, reported) ==
  lastCall' = [handler |-> handler, input |-> input, reported |-> reported]

\* The page after the constructor and the synchronous part of init(): the
\* configuration comes from ?c= or from the defaults, the icons are loading
InitApp ==
  \E param \in {NoParam} \cup ExternalInputs :
    LET initial == getInitialConfig(param)
        decoded == param # NoParam /\ decodeConfigFromURL(param) # Null
    IN  /\ config = initial
        /\ url = IF decoded THEN encodeConfigToURL(initial) ELSE param
        /\ iconsCache = EmptyCache
        /\ measureAvailable = TRUE
        /\ measureThrows = FALSE
        /\ docs = [s \in Sizes |-> NoDoc]
        /\ containers = [s \in PreviewSizes |-> <<>>]
        /\ reference = NoDoc
        /\ layoutRuns = 0
        /\ errorShown = FALSE
        /\ iconSelectorShown = (initial.foreground.type = "icon")
        /\ emojiSelectorShown = IsEmojiType(initial.foreground.type)
        /\ lastWrite = "constructor"
        /\ lastCall = [handler |-> "constructor", input |-> param,
                       reported |-> param = Unparseable]
        /\ displayed = buildUI(initial)
        /\ disabledControls = updateControlStates({}, initial)
        /\ iconLists = <<>>
        /\ NoExport

\* init(): getAllIcons has resolved, then updatePreviews()
LoadIcons ==
  /\ iconsCache = EmptyCache
  /\ \E r \in {getAllIcons(iconsCache)} :
       /\ iconsCache' = r.cache
       /\ iconLists' = Append(iconLists, r.icons)
  /\ UNCHANGED <<pngExport, packExport>>
  /\ \E r \in {updatePreviews(config, IconCatalogue)} : ShowPreviews(r)
  /\ Called("init", NoParam, FALSE)
  /\ UNCHANGED <<config, measureAvailable, measureThrows, docs, url, errorShown,
                 iconSelectorShown, emojiSelectorShown, lastWrite, displayed,
                 disabledControls>>

\* A control's listener: setNestedValue(this.config, id, value), then the
\* onChange callback: setConfig, the two selector states, updatePreviews,
\* updateURL.  An exception ends the callback where it is raised.
HandleChange(section, key, value) ==
  LET newConfig == setNestedValue(config, section, key, value)
  IN  /\ config' = newConfig
      /\ lastWrite' = IF newConfig # config THEN "in-place" ELSE lastWrite
      /\ displayed' = [c \in Controls |->
                          IF c = <<section, key>> THEN value ELSE displayed[c]]
      /\ disabledControls' = updateControlStates(disabledControls, newConfig)
      /\ IF IsMissing(newConfig.foreground)
         THEN UNCHANGED <<containers, reference, layoutRuns, url,
                          iconSelectorShown, emojiSelectorShown>>
         ELSE /\ iconSelectorShown' = (newConfig.foreground.type = "icon")
              /\ emojiSelectorShown' = IsEmojiType(newConfig.foreground.type)
              /\ \E r \in {updatePreviews(newConfig, iconsCache)} :
                   /\ ShowPreviews(r)
                   /\ url' = IF r.baseSvg = Threw THEN url
                             ELSE encodeConfigToURL(newConfig)
      /\ Called("change", NoParam, FALSE)
      /\ UNCHANGED exportVars
      /\ UNCHANGED <<iconsCache, measureAvailable, measureThrows, docs, errorShown>>

\* The Apply button of the config modal
Apply(input) ==
  IF input = Unparseable
  THEN /\ errorShown' = TRUE
       /\ UNCHANGED exportVars
       /\ Called("apply", input, TRUE)
       /\ UNCHANGED <<rendererVars, containers, reference, layoutRuns, url,
                      iconSelectorShown, emojiSelectorShown, lastWrite, displayed,
                      disabledControls>>
  ELSE LET newConfig == JsonParse(input)
       IN  /\ config' = newConfig
           /\ lastWrite' = "setConfig"
           /\ displayed' = updateInputValues(displayed, newConfig)
           /\ disabledControls' = updateControlStates(disabledControls, newConfig)
           /\ url' = encodeConfigToURL(newConfig)
           /\ \E r \in {updatePreviews(newConfig, iconsCache)} :
                /\ ShowPreviews(r)
                /\ errorShown' = (r.baseSvg = Threw)
                /\ Called("apply", input, r.baseSvg = Threw)
           /\ UNCHANGED exportVars
           /\ UNCHANGED <<iconsCache, measureAvailable, measureThrows, docs,
                          iconSelectorShown, emojiSelectorShown>>

\* The Reset button, confirmed
Reset ==
  /\ config' = buildDefaultConfig
  /\ lastWrite' = "setConfig"
  /\ displayed' = updateInputValues(displayed, buildDefaultConfig)
  /\ disabledControls' = updateControlStates(disabledControls, buildDefaultConfig)
  /\ iconSelectorShown' = (buildDefaultConfig.foreground.type = "icon")
  /\ emojiSelectorShown' = IsEmojiType(buildDefaultConfig.foreground.type)
  /\ url' = NoParam
  /\ \E r \in {updatePreviews(buildDefaultConfig, iconsCache)} :
       /\ ShowPreviews(r)
       /\ errorShown' = IF r.baseSvg = Threw THEN errorShown ELSE FALSE
  /\ Called("reset", NoParam, FALSE)
  /\ UNCHANGED exportVars
  /\ UNCHANGED <<iconsCache, measureAvailable, measureThrows, docs>>

\* A property of the foreground written in the object getConfig() returned,
\* then setConfig with that same object, updateURL, updatePreviews
SelectInPlace(handler, key, value) ==
  IF IsMissing(config.foreground)
  THEN /\ Called(handler, NoParam, FALSE)
       /\ UNCHANGED exportVars
       /\ UNCHANGED <<rendererVars, containers, reference, layoutRuns, url,
                      errorShown, iconSelectorShown, emojiSelectorShown, lastWrite,
                      displayed, disabledControls>>
  ELSE LET newConfig == [config EXCEPT !.foreground[key] = value]
       IN  /\ config' = newConfig
           /\ lastWrite' = IF newConfig # config THEN "in-place" ELSE lastWrite
           /\ url' = encodeConfigToURL(newConfig)
           /\ \E r \in {updatePreviews(newConfig, iconsCache)} : ShowPreviews(r)
           /\ Called(handler, NoParam, FALSE)
           /\ UNCHANGED exportVars
           /\ UNCHANGED <<iconsCache, measureAvailable, measureThrows, docs,
                          errorShown, iconSelectorShown, emojiSelectorShown,
                          displayed, disabledControls>>

\* selectEmoji: an emoji of the emoji modal is clicked
SelectEmoji(emoji) ==
  /\ emojiSelectorShown
  /\ SelectInPlace("selectEmoji", "emoji", emoji)

\* selectIcon: an icon of the loaded catalogue is clicked
SelectIcon(name) ==
  /\ iconSelectorShown
  /\ name \in DOMAIN iconsCache
  /\ SelectInPlace("selectIcon", "iconName", name)

NextApp ==
  \/ LoadIcons
  \/ \E type \in BackgroundTypes : HandleChange("background", "type", type)
  \/ \E type \in ForegroundTypes : HandleChange("foreground", "type", type)
  \/ \E input \in ExternalInputs : Apply(input)
  \/ Reset
  \/ \E emoji \in EmojiChoices : SelectEmoji(emoji)
  \/ \E name \in DOMAIN IconCatalogue : SelectIcon(name)

SpecApp == InitApp /\ [][NextApp]_vars

-----------------------------------------------------------------------------
(* The exporter (src/src/exporter.ts)                                      *)

Letters ==
  <<"a", "b", "c", "d", "e", "f", "g", "h", "i", "j", "k", "l", "m", "n", "o",
    "p", "q", "r", "s", "t", "u", "v", "w", "x", "y", "z">>

Capitals ==
  <<"A", "B", "C", "D", "E", "F", "G", "H", "I", "J", "K", "L", "M", "N", "O",
    "P", "Q", "R", "S", "T", "U", "V", "W", "X", "Y", "Z">>

Digits == <<"0", "1", "2", "3", "4", "5", "6", "7", "8", "9">>

Range(seq) == {seq[i] : i \in DOMAIN seq}

\* [a-zA-Z0-9]
IsAlnum(c) == c \in Range(Letters) \cup Range(Capitals) \cup Range(Digits)

\* s.replace(/[^a-zA-Z0-9]/g, '-')
Dashed(s) == [i \in DOMAIN s |-> IF IsAlnum(s[i]) THEN s[i] ELSE "-"]

\* s.toLowerCase()
ToLowerCase(s) ==
  [i \in DOMAIN s |->
     IF s[i] \in Range(Capitals)
     THEN Letters[CHOOSE k \in DOMAIN Capitals : Capitals[k] = s[i]]
     ELSE s[i]]

\* s.substring(0, n)
Prefix(s, n) == SubSeq(s, 1, IF Len(s) < n THEN Len(s) ELSE n)

\* The labels of the emoji data set
EmojiLabels ==
  <<"E">> :> <<"A", "r", "t", "i", "s", "t", " ", "p", "a", "l", "e", "t", "t", "e">>

\* getEmojiName: the label, dashed, in lower case, at most 30 characters
getEmojiName(emoji) ==
  IF emoji \in DOMAIN EmojiLabels /\ EmojiLabels[emoji] # <<>>
  THEN Prefix(ToLowerCase(Dashed(EmojiLabels[emoji])), 30)
  ELSE <<"e", "m", "o", "j", "i">>

DigitValue(c) == (CHOOSE k \in DOMAIN Digits : Digits[k] = c) - 1

\* The leading run of decimal digits of s, and what follows it
RECURSIVE LeadingDigits(_)
LeadingDigits(s) ==
  IF s # <<>> /\ Head(s) \in Range(Digits) THEN <<Head(s)>> \o LeadingDigits(Tail(s))
  ELSE <<>>

RECURSIVE SkipSpaces(_)
SkipSpaces(s) == IF s # <<>> /\ Head(s) = " " THEN SkipSpaces(Tail(s)) ELSE s

After(s, n) == SubSeq(s, n + 1, Len(s))

\* parseInt of a run of decimal digits
RECURSIVE ParseInt(_)
ParseInt(ds) ==
  IF ds = <<>> THEN 0 ELSE 10 * ParseInt(SubSeq(ds, 1, Len(ds) - 1)) + DigitValue(ds[Len(ds)])

\* n.toString(16).padStart(2, '0')
RECURSIVE ToHex(_)
ToHex(n) ==
  LET digit(d) == IF d < 10 THEN Digits[d + 1] ELSE Letters[d - 9]
  IN  IF n < 16 THEN <<digit(n)>> ELSE ToHex(n \div 16) \o <<digit(n % 16)>>

PadHex(n) == IF n < 16 THEN <<"0">> \o ToHex(n) ELSE ToHex(n)

\* color.match(/rgba?\((\d+),\s*(\d+),\s*(\d+)/) on a value that begins with
\* rgb( or rgba(: the three numbers, or <<>> without a match
RgbaMatch(color) ==
  LET open == IF Len(color) >= 4 /\ SubSeq(color, 1, 4) = <<"r", "g", "b", "(">> THEN 4
              ELSE IF Len(color) >= 5 /\ SubSeq(color, 1, 5) = <<"r", "g", "b", "a", "(">>
              THEN 5 ELSE 0
      s1 == After(color, open)
      r  == LeadingDigits(s1)
      s2 == After(s1, Len(r))
      s3 == IF s2 # <<>> /\ Head(s2) = "," THEN SkipSpaces(Tail(s2)) ELSE <<>>
      g  == LeadingDigits(s3)
      s4 == After(s3, Len(g))
      s5 == IF s4 # <<>> /\ Head(s4) = "," THEN SkipSpaces(Tail(s4)) ELSE <<>>
      b  == LeadingDigits(s5)
  IN  IF open = 0 \/ r = <<>> \/ g = <<>> \/ b = <<>> THEN <<>>
      ELSE <<ParseInt(r), ParseInt(g), ParseInt(b)>>

\* extractHexColor: the six digits after #, the hex form of an rgb(a) value,
\* or 000000
extractHexColor(color) ==
  IF color # <<>> /\ Head(color) = "#" THEN SubSeq(color, 2, IF Len(color) < 7 THEN Len(color) ELSE 7)
  ELSE LET rgb == RgbaMatch(color)
       IN  IF rgb # <<>> THEN PadHex(rgb[1]) \o PadHex(rgb[2]) \o PadHex(rgb[3])
           ELSE <<"0", "0", "0", "0", "0", "0">>

\* The spelling of an icon name, for the names that have one
NameText(name) == IF name \in DOMAIN Spelling THEN Spelling[name] ELSE name

\* The content part of a filename
ContentPart(fg) ==
  IF fg.type = "text" /\ Truthy(fg.text) THEN Prefix(Dashed(fg.text), 20)
  ELSE IF IsEmojiType(fg.type) /\ Truthy(fg.emoji) THEN getEmojiName(fg.emoji)
  ELSE IF IsEmojiType(fg.type) THEN <<"e", "m", "o", "j", "i">>
  ELSE IF fg.type = "icon" /\ Truthy(fg.iconName) THEN NameText(fg.iconName)
  ELSE <<"i", "c", "o", "n">>

\* generateFilename reads a property of an absent section, or calls
\* startsWith on an absent colour
FilenameThrows(cfg) ==
  \/ IsMissing(cfg.background) \/ IsMissing(cfg.foreground)
  \/ cfg.background.color = Undefined \/ cfg.foreground.color = Undefined

\* generateFilename: the parts joined by '-', the size part when a size is
\* given, and the extension; the parts are kept as a list
generateFilename(cfg, extension, size) ==
  [parts |-> <<ContentPart(cfg.foreground), extractHexColor(cfg.background.color),
               extractHexColor(cfg.foreground.color)>>,
   size |-> size, extension |-> extension]

\* The sizes of the PNG files of a favicon pack
PackSizes == {16, 32, 180, 192, 512}

\* How many of the five PNG promises are at each step
AllLoading == [loading |-> Cardinality(PackSizes), encoding |-> 0, resolved |-> 0, never |-> 0]
NoneStarted == [loading |-> 0, encoding |-> 0, resolved |-> 0, never |-> Cardinality(PackSizes)]

Move(pngs, from, to) == [pngs EXCEPT ![from] = @ - 1, ![to] = @ + 1]

\* Configurations the page is opened with or given while an export runs
ExportObjects ==
  {buildDefaultConfig,
   [background |-> SolidBackground, foreground |-> EmojiForeground],
   [background |-> [SolidBackground EXCEPT !.color = Undefined],
    foreground |-> [DefaultForeground EXCEPT !.type = "icon"]]}

ExportColors == {ColorIndigo, ColorRgba}

PngPending  == pngExport.stage \in {"loading", "encoding"}
PackPending == packExport.stage \in {"pngs", "zipping"}

InitExport ==
  /\ config \in {c \in ExportObjects : c.background.color # Undefined}
  /\ iconsCache = EmptyCache
  /\ measureAvailable = TRUE
  /\ measureThrows = FALSE
  /\ docs = [s \in Sizes |-> NoDoc]
  /\ NoApp
  /\ iconLists = <<>>
  /\ NoExport

\* getAllIcons called again: the list is rebuilt from the cache
GetAllIconsCached ==
  /\ iconsCache # EmptyCache
  /\ Len(iconLists) < MaxIconCalls
  /\ \E r \in {getAllIcons(iconsCache)} :
       /\ iconsCache' = r.cache
       /\ iconLists' = Append(iconLists, r.icons)
  /\ UNCHANGED <<config, measureAvailable, measureThrows, docs, pngExport, packExport>>
  /\ UNCHANGED appVars

\* renderer.setConfig(obj) with a new object: the object exportFaviconPack
\* holds is no longer the renderer's
SetConfig(obj) ==
  /\ config' = obj
  /\ packExport' = IF packExport.stage = "pngs"
                   THEN [packExport EXCEPT !.aliased = FALSE] ELSE packExport
  /\ UNCHANGED <<iconsCache, measureAvailable, measureThrows, docs, iconLists, pngExport>>
  /\ UNCHANGED appVars

\* A property written in the object the renderer holds, as the listeners of
\* the controls do; exportFaviconPack sees it while it holds the same object
EditInPlace(section, key, value) ==
  LET newConfig == setNestedValue(config, section, key, value)
  IN  /\ config' = newConfig
      /\ packExport' = IF packExport.stage = "pngs" /\ packExport.aliased
                       THEN [packExport EXCEPT !.held = newConfig] ELSE packExport
      /\ UNCHANGED <<iconsCache, measureAvailable, measureThrows, docs, iconLists,
                     pngExport>>
      /\ UNCHANGED appVars

\* exportPNG(size) up to img.src = url.  ctx: canvas.getContext('2d') yields
\* a context.
ExportPNG(size, ctx) ==
  /\ ~PngPending /\ ~PackPending
  /\ \E svg \in {Render(config, iconsCache, measureAvailable, measureThrows, size)} :
       pngExport' =
         IF svg = Threw THEN [stage |-> "threw", size |-> size]
         ELSE IF ~ctx THEN [stage |-> "abandoned", size |-> size]
         ELSE [stage |-> "loading", size |-> size, svg |-> svg, rendered |-> config]
  /\ packExport' = NoPack
  /\ UNCHANGED <<rendererVars, iconLists>>
  /\ UNCHANGED appVars

\* img.onload: the image is drawn and canvas.toBlob is called.  An image
\* that fails to load has no handler.
PngImageLoaded(ok) ==
  /\ pngExport.stage = "loading"
  /\ pngExport' = [pngExport EXCEPT !.stage = IF ok THEN "encoding" ELSE "abandoned"]
  /\ UNCHANGED <<rendererVars, iconLists, packExport>>
  /\ UNCHANGED appVars

\* The toBlob callback: without a blob it returns, with one it downloads the
\* file under generateFilename('png', size), which reads renderer.getConfig()
PngBlobReady(blob) ==
  /\ pngExport.stage = "encoding"
  /\ pngExport' =
       IF ~blob THEN [pngExport EXCEPT !.stage = "abandoned"]
       ELSE IF FilenameThrows(config) THEN [pngExport EXCEPT !.stage = "threw"]
       ELSE [stage |-> "downloaded", size |-> pngExport.size, svg |-> pngExport.svg,
             rendered |-> pngExport.rendered,
             filename |-> generateFilename(config, "png", pngExport.size)]
  /\ UNCHANGED <<rendererVars, iconLists, packExport>>
  /\ UNCHANGED appVars

\* exportFaviconPack() up to await Promise.all: config = getConfig(), then one
\* promise per size whose executor renders at once.  An executor that throws
\* rejects its promise, and with it Promise.all and the call; an executor
\* without a context returns and its promise is never settled.
ExportFaviconPack(ctx) ==
  /\ ~PngPending /\ ~PackPending
  /\ \E images \in {[size \in PackSizes |->
                       Render(config, iconsCache, measureAvailable, measureThrows, size)]} :
       packExport' =
         IF IsMissing(config.background) \/ \E size \in PackSizes : images[size] = Threw
         THEN [stage |-> "rejected"]
         ELSE [stage |-> "pngs", pngs |-> IF ctx THEN AllLoading ELSE NoneStarted,
               images |-> images, called |-> config, held |-> config,
               aliased |-> TRUE]
  /\ pngExport' = NoPng
  /\ UNCHANGED <<rendererVars, iconLists>>
  /\ UNCHANGED appVars

\* img.onload of one of the pack's images
PackImageLoaded(ok) ==
  /\ packExport.stage = "pngs" /\ packExport.pngs.loading > 0
  /\ packExport' = [packExport EXCEPT
                      !.pngs = Move(@, "loading", IF ok THEN "encoding" ELSE "never")]
  /\ UNCHANGED <<rendererVars, iconLists, pngExport>>
  /\ UNCHANGED appVars

\* The toBlob callback of one of the pack's images: resolve only with a blob
PackBlobReady(blob) ==
  /\ packExport.stage = "pngs" /\ packExport.pngs.encoding > 0
  /\ packExport' = [packExport EXCEPT
                      !.pngs = Move(@, "encoding", IF blob THEN "resolved" ELSE "never")]
  /\ UNCHANGED <<rendererVars, iconLists, pngExport>>
  /\ UNCHANGED appVars

\* After await Promise.all: the PNG files, favicon.svg from generateSVG(512)
\* of the renderer as it is now, the manifest and the snippet from the held
\* object, then await zip.generateAsync
PackAssemble ==
  /\ packExport.stage = "pngs"
  /\ packExport.pngs.resolved = Cardinality(PackSizes)
  /\ \E svg \in {Render(config, iconsCache, measureAvailable, measureThrows,
                        ReferenceSize)} :
       packExport' =
         IF svg = Threw THEN [stage |-> "rejected"]
         ELSE [stage |-> "zipping", called |-> packExport.called,
               images |-> packExport.images, imagesFrom |-> packExport.called,
               svg |-> svg, svgFrom |-> config,
               themeColor |-> packExport.held.background.color,
               snippetColor |-> packExport.held.background.color]
  /\ UNCHANGED <<rendererVars, iconLists, pngExport>>
  /\ UNCHANGED appVars

\* The zip is generated and favicon-pack.zip is downloaded
PackDownload ==
  /\ packExport.stage = "zipping"
  /\ packExport' = [packExport EXCEPT !.stage = "downloaded"]
  /\ UNCHANGED <<rendererVars, iconLists, pngExport>>
  /\ UNCHANGED appVars

NextExport ==
  \/ GetAllIcons
  \/ GetAllIconsCached
  \/ \E obj \in ExportObjects : SetConfig(obj)
  \/ \E color \in ExportColors : EditInPlace("background", "color", color)
  \/ \E size \in Sizes, ctx \in BOOLEAN : ExportPNG(size, ctx)
  \/ \E ok \in BOOLEAN : PngImageLoaded(ok)
  \/ \E blob \in BOOLEAN : PngBlobReady(blob)
  \/ \E ctx \in BOOLEAN : ExportFaviconPack(ctx)
  \/ \E ok \in BOOLEAN : PackImageLoaded(ok)
  \/ \E blob \in BOOLEAN : PackBlobReady(blob)
  \/ PackAssemble
  \/ PackDownload

SpecExport == InitExport /\ [][NextExport]_vars

\* The browser runs every callback and continuation that is due
SpecExportFair ==
  /\ SpecExport
  /\ WF_vars(\E ok \in BOOLEAN : PngImageLoaded(ok))
  /\ WF_vars(\E blob \in BOOLEAN : PngBlobReady(blob))
  /\ WF_vars(\E ok \in BOOLEAN : PackImageLoaded(ok))
  /\ WF_vars(\E blob \in BOOLEAN : PackBlobReady(blob))
  /\ WF_vars(PackAssemble)
  /\ WF_vars(PackDownload)

-----------------------------------------------------------------------------
(* Vocabulary of the properties                                            *)

\* generateSVG(size) has returned a document for the current configuration
Rendered(size) == docs[size] # NoDoc /\ docs[size] # Threw

\* Every required field of the configuration is present
StructurallyValid(cfg) == cfg.background.color # Undefined

IsMarker(el) ==
  /\ el.tag = "rect" /\ "x" \in DOMAIN el
  /\ el.width = RInt(1) /\ el.height = RInt(1)
  /\ el.fillOpacity = Rat(1, 100)

MarkerCount(doc) == Cardinality({i \in 1..Len(doc) : IsMarker(doc[i])})

HasMarkerAt(doc, x, y) ==
  \E i \in 1..Len(doc) : IsMarker(doc[i]) /\ doc[i].x = RInt(x) /\ doc[i].y = RInt(y)

HasBothMarkers(doc, size) ==
  MarkerCount(doc) = 2 /\ HasMarkerAt(doc, 0, 0) /\ HasMarkerAt(doc, size, size)

IsBackgroundRect(el) == el.tag = "rect" /\ "x" \notin DOMAIN el

BackgroundRects(doc) == {i \in 1..Len(doc) : IsBackgroundRect(doc[i])}

\* A colour written #RRGGBBAA and its alpha byte
IsHex8Colour(color) ==
  Len(color) = 9 /\ color[1] = "#" /\ \A i \in 2..9 : color[i] \in HexDigits

AlphaByte(color) == 16 * HexVal(color[8]) + HexVal(color[9])

\* The alpha a colour encodes: AA/255 for #RRGGBBAA, 1 otherwise
ColourAlpha(color) ==
  IF IsHex8Colour(color) THEN Rat(AlphaByte(color), 255) ELSE RInt(1)

\* The background alpha of a configuration: 0 for transparent, else the
\* alpha of its primary colour
ConfiguredAlpha(bg) ==
  IF bg.type = "transparent" THEN RInt(0) ELSE ColourAlpha(bg.color)

-----------------------------------------------------------------------------
(* Background                                                              *)

\* C1: the document contains the two 1x1 marker rects, at (0,0) and at
\* (size,size), exactly when the background alpha is <= 0.01, that is for
\* kind transparent and for any other kind whose colour encodes alpha <= 0.01;
\* for alpha > 0.01 it contains no marker.
C1_MarkersIffAlphaLow ==
  \A size \in Sizes :
    Rendered(size) =>
      IF RLe(ConfiguredAlpha(config.background), Rat(1, 100))
      THEN HasBothMarkers(docs[size], size)
      ELSE MarkerCount(docs[size]) = 0

\* C6: for a solid background the opacity of the background rect is AA/255
\* when the colour is #RRGGBBAA and 1 when the colour has no 8-digit alpha.
C6_SolidOpacityIsAlphaByte ==
  \A size \in Sizes :
    Rendered(size) /\ config.background.type = "solid" =>
      /\ Cardinality(BackgroundRects(docs[size])) = 1
      /\ \A i \in BackgroundRects(docs[size]) :
           docs[size][i].fillOpacity =
             IF IsHex8Colour(config.background.color)
             THEN Rat(AlphaByte(config.background.color), 255)
             ELSE RInt(1)

C6_Witness ==
  /\ config.background.type = "solid"
  /\ config.background.color = ColorIndigo80
  /\ \E size \in Sizes :
       /\ Rendered(size)
       /\ \E i \in BackgroundRects(docs[size]) :
            docs[size][i].fillOpacity = Rat(128, 255)

\* C7: for a background colour #RRGGBBAA the fill of the background rect is
\* the six-digit colour #RRGGBB, without the alpha digits.
C7_FillIsSixDigits ==
  \A size \in Sizes :
    Rendered(size) /\ config.background.type = "solid"
      /\ IsHex8Colour(config.background.color) =>
      \A i \in BackgroundRects(docs[size]) :
        docs[size][i].fill = SubSeq(config.background.color, 1, 7)

\* C8: for a linear or radial gradient the opacity of the background rect is
\* the alpha of the primary colour, and a gradient whose primary colour has
\* alpha <= 0.01 gets the two markers.
C8_GradientOpacityIsPrimaryAlpha ==
  \A size \in Sizes :
    Rendered(size) /\ IsGradientType(config.background.type) =>
      /\ \A i \in BackgroundRects(docs[size]) :
           docs[size][i].fillOpacity = ColourAlpha(config.background.color)
      /\ RLe(ColourAlpha(config.background.color), Rat(1, 100)) =>
           HasBothMarkers(docs[size], size)

-----------------------------------------------------------------------------
(* Text layout                                                             *)

\* The <text> elements of a document, in document order
TextElements(doc) == SelectSeq(doc, LAMBDA el : el.tag = "text")

\* The lines of the configured text and their number
ConfiguredLines == Split(OrStr(config.foreground.text, <<" ">>))
LineCount == Len(ConfiguredLines)

\* size x sizePercent / 100, the default percentage standing in for an unset one
SizePercentExtent(size) ==
  Rat(size * (IF config.foreground.size = NoNum THEN 80 ELSE config.foreground.size),
      100)

\* The foreground budget the layout works with
MaxExtent(size) == MaxSize(config.foreground, size)

\* Minimum of a non-empty set of rationals
RSetMin(S) == CHOOSE x \in S : \A y \in S : RLe(x, y)

\* C2: for kind text, monospace or not, and any text, lineCount x fontSize
\* is at most maxExtent = size x sizePercent / 100.
C2_BlockHeightWithinExtent ==
  \A size \in Sizes :
    Rendered(size) /\ config.foreground.type = "text" =>
      \A i \in 1..Len(TextElements(docs[size])) :
        RLe(RMul(RInt(LineCount), TextElements(docs[size])[i].fontSize),
            SizePercentExtent(size))

\* Largest font size at which the oracle reports a width <= extent for the line
WidthBoundSize(line, fontFamily, extent) ==
  RDiv(extent, Rat(LineEm(line, fontFamily), 100))

\* C3: for non-monospace text measured by an oracle whose width is
\* proportional to the font size, every non-blank line is at most maxExtent
\* wide at the final font size, and the final font size is the minimum of
\* the per-line width-bound sizes of the non-blank lines and of
\* maxExtent / lineCount.
C3_WidthBoundFontSize ==
  \A size \in Sizes :
    Rendered(size) /\ config.foreground.type = "text"
      /\ ~config.foreground.monospace /\ measureAvailable =>
      LET els    == TextElements(docs[size])
          family == OrName(config.foreground.fontFamily, "sans-serif")
          bounds == {WidthBoundSize(ConfiguredLines[l], family, MaxExtent(size)) :
                       l \in {k \in 1..LineCount : NonBlank(ConfiguredLines[k])}}
      IN  /\ Len(els) = 1
          /\ \A l \in 1..LineCount :
               NonBlank(ConfiguredLines[l]) =>
                 RLe(measureText(ConfiguredLines[l], els[1].fontSize, family),
                     MaxExtent(size))
          /\ els[1].fontSize =
               RSetMin(bounds \cup {RDiv(MaxExtent(size), RInt(LineCount))})

\* A single line of four characters: the width bound is below the height bound
C3_Witness ==
  /\ config.foreground.type = "text" /\ ~config.foreground.monospace
  /\ measureAvailable
  /\ config.foreground.text = <<"A", "A", "A", "A">>
  /\ config.foreground.fontFamily = "serif"
  /\ \E size \in Sizes :
       /\ Rendered(size)
       /\ TextElements(docs[size])[1].fontSize = RDiv(MaxExtent(size), Rat(240, 100))

\* The five character references escapeXml writes
References ==
  {<<<<"&", "a", "m", "p", ";">>, "&">>, <<<<"&", "l", "t", ";">>, "<">>,
   <<<<"&", "g", "t", ";">>, ">">>, <<<<"&", "q", "u", "o", "t", ";">>, "\"">>,
   <<<<"&", "a", "p", "o", "s", ";">>, "'">>}

StartsWith(s, prefix) ==
  Len(s) >= Len(prefix) /\ SubSeq(s, 1, Len(prefix)) = prefix

\* The characters an XML parser reads from element content: every one of
\* the five references stands for its character, anything else for itself
RECURSIVE XmlText(_)
XmlText(s) ==
  IF s = <<>> THEN <<>>
  ELSE IF \E ref \in References : StartsWith(s, ref[1])
  THEN LET ref == CHOOSE r \in References : StartsWith(s, r[1])
       IN  <<ref[2]>> \o XmlText(SubSeq(s, Len(ref[1]) + 1, Len(s)))
  ELSE <<Head(s)>> \o XmlText(Tail(s))

MonospaceWithCharacters ==
  /\ config.foreground.type = "text" /\ config.foreground.monospace
  /\ LongestLineLength(ConfiguredLines) > 0

\* x = size/2 + (i - c/2 + 0.5) x charWidth for every character of every line,
\* in document order
RECURSIVE GridPositions(_, _, _)
GridPositions(lines, charWidth, size) ==
  IF lines = <<>> THEN <<>>
  ELSE [i \in 1..Len(Head(lines)) |->
          [x |-> RAdd(Rat(size, 2),
                      RMul(RAdd(RSub(RInt(i - 1), Rat(Len(Head(lines)), 2)),
                                Rat(1, 2)),
                           charWidth)),
           char |-> Head(lines)[i]]]
         \o GridPositions(Tail(lines), charWidth, size)

\* C4: in monospace mode with a non-empty line every character is its own
\* element, character i of a line of c characters is at
\* x = size/2 + (i - c/2 + 0.5) x charWidth with
\* charWidth = maxExtent / longestLineLength, and no line's grid is wider
\* than maxExtent.
C4_MonospaceGrid ==
  \A size \in Sizes :
    Rendered(size) /\ MonospaceWithCharacters =>
      LET els       == TextElements(docs[size])
          charWidth == RDiv(MaxExtent(size), RInt(LongestLineLength(ConfiguredLines)))
          grid      == GridPositions(ConfiguredLines, charWidth, size)
      IN  /\ Len(els) = Len(grid)
          /\ \A i \in 1..Len(els) :
               els[i].x = grid[i].x /\ XmlText(els[i].content) = <<grid[i].char>>
          /\ \A l \in 1..LineCount :
               RLe(RMul(RInt(Len(ConfiguredLines[l])), charWidth), MaxExtent(size))

\* Two lines of different lengths, three character elements
C4_Witness ==
  /\ MonospaceWithCharacters
  /\ config.foreground.text = <<"A", NL, "A", "A">>
  /\ \E size \in Sizes : Rendered(size) /\ Len(TextElements(docs[size])) = 3

\* C5: in monospace mode with a non-empty longest line the font size is
\* min(maxExtent / lineCount, maxExtent / longestLineLength); for a text of
\* the shape "AB\nC" charWidth and fontSize are both maxExtent / 2.
C5_MonospaceFontSize ==
  \A size \in Sizes :
    Rendered(size) /\ MonospaceWithCharacters =>
      LET els == TextElements(docs[size])
      IN  /\ \A i \in 1..Len(els) :
               els[i].fontSize =
                 RMin(RDiv(MaxExtent(size), RInt(LineCount)),
                      RDiv(MaxExtent(size), RInt(LongestLineLength(ConfiguredLines))))
          /\ config.foreground.text = <<"A", "A", NL, "A">> =>
               /\ els[1].fontSize = RDiv(MaxExtent(size), RInt(2))
               /\ RSub(els[2].x, els[1].x) = RDiv(MaxExtent(size), RInt(2))

C5_Witness ==
  /\ MonospaceWithCharacters
  /\ config.foreground.text = <<"A", "A", NL, "A">>
  /\ \E size \in Sizes :
       /\ Rendered(size)
       /\ TextElements(docs[size])[1].fontSize = RDiv(MaxExtent(size), RInt(2))

-----------------------------------------------------------------------------
(* Whole document                                                          *)

ScaleAll(seq, k) == [i \in 1..Len(seq) |-> RMul(seq[i], k)]

\* The element with every length and coordinate multiplied by k; the 1x1
\* extent of a marker is multiplied only when scaleMarkerExtent
ScaleElement(el, k, scaleMarkerExtent) ==
  CASE el.tag = "svg" ->
         [el EXCEPT !.width = RMul(@, k), !.height = RMul(@, k),
                    !.viewBox = ScaleAll(@, k)]
    [] el.tag = "rect" /\ IsMarker(el) ->
         IF scaleMarkerExtent
         THEN [el EXCEPT !.x = RMul(@, k), !.y = RMul(@, k),
                         !.width = RMul(@, k), !.height = RMul(@, k)]
         ELSE [el EXCEPT !.x = RMul(@, k), !.y = RMul(@, k)]
    [] el.tag = "rect" /\ ~IsMarker(el) /\ "rx" \in DOMAIN el ->
         [el EXCEPT !.width = RMul(@, k), !.height = RMul(@, k),
                    !.rx = RMul(@, k), !.ry = RMul(@, k)]
    [] el.tag = "rect" /\ ~IsMarker(el) /\ "rx" \notin DOMAIN el ->
         [el EXCEPT !.width = RMul(@, k), !.height = RMul(@, k)]
    [] el.tag = "text" /\ "tspans" \in DOMAIN el ->
         [el EXCEPT !.y = RMul(@, k), !.fontSize = RMul(@, k),
                    !.tspans = [i \in 1..Len(@) |->
                                  [@[i] EXCEPT !.dy = RMul(@, k)]]]
    [] el.tag = "text" /\ "tspans" \notin DOMAIN el ->
         [el EXCEPT !.x = RMul(@, k), !.y = RMul(@, k), !.fontSize = RMul(@, k)]
    [] el.tag = "foreignObject" ->
         [el EXCEPT !.x = RMul(@, k), !.y = RMul(@, k),
                    !.width = RMul(@, k), !.height = RMul(@, k),
                    !.divs = [i \in 1..Len(@) |->
                                [@[i] EXCEPT !.fontSize = RMul(@, k),
                                             !.lineHeight = RMul(@, k)]]]
    [] el.tag = "icon" ->
         [el EXCEPT !["x"] = RMul(@, k), !["y"] = RMul(@, k),
                    !["width"] = RMul(@, k), !["height"] = RMul(@, k)]
    [] OTHER -> el

ScaleDocument(doc, k, scaleMarkerExtent) ==
  [i \in 1..Len(doc) |-> ScaleElement(doc[i], k, scaleMarkerExtent)]

\* C9 as stated: every length and coordinate of generateSVG(k x S), those of
\* every emitted shape, is k times the one of generateSVG(S).
C9_EveryLengthScales ==
  \A s1 \in Sizes, s2 \in Sizes :
    Rendered(s1) /\ Rendered(s2) =>
      docs[s2] = ScaleDocument(docs[s1], Rat(s2, s1), TRUE)

\* C9 as amended: every length and coordinate of generateSVG(k x S) is k
\* times the one of generateSVG(S), except the width and height of the two
\* marker rects, which are 1 at every size.
C9_LengthsScaleExceptMarkerExtent ==
  \A s1 \in Sizes, s2 \in Sizes :
    Rendered(s1) /\ Rendered(s2) =>
      docs[s2] = ScaleDocument(docs[s1], Rat(s2, s1), FALSE)

\* A transparent background rendered at two sizes: markers and foreground
C9_Witness ==
  /\ config.background.type = "transparent"
  /\ \E s1 \in Sizes, s2 \in Sizes :
       /\ s1 < s2 /\ Rendered(s1) /\ Rendered(s2)
       /\ HasBothMarkers(docs[s1], s1) /\ HasBothMarkers(docs[s2], s2)
       /\ Len(docs[s1]) > 4

\* C10: for every structurally valid configuration and every size
\* generateSVG returns, without throwing, a document that starts with the
\* svg header of width = height = size and viewBox 0 0 size size and ends
\* with the closing svg tag.
C10_GenerateSvgTotal ==
  \A size \in Sizes :
    docs[size] # NoDoc /\ StructurallyValid(config) =>
      /\ docs[size] # Threw
      /\ Head(docs[size]) =
           [tag |-> "svg", width |-> RInt(size), height |-> RInt(size),
            viewBox |-> <<RInt(0), RInt(0), RInt(size), RInt(size)>>]
      /\ docs[size][Len(docs[size])] = [tag |-> "/svg"]
      /\ \A i \in 2..(Len(docs[size]) - 1) :
           docs[size][i].tag \notin {"svg", "/svg", "TypeError"}

\* An icon kind with an empty icon name, rendered: header, background, close
C10_Witness ==
  /\ StructurallyValid(config)
  /\ config.foreground.type = "icon" /\ config.foreground.iconName = <<>>
  /\ \E size \in Sizes :
       /\ docs[size] # NoDoc /\ docs[size] # Threw
       /\ docs[size][Len(docs[size])] = [tag |-> "/svg"]

-----------------------------------------------------------------------------
(* Missing glyph                                                           *)

\* The icon kind has no glyph to draw: no name, a name the catalogue does
\* not have, or a catalogue that is not loaded yet
GlyphMissing ==
  /\ config.foreground.type = "icon"
  /\ \/ ~Truthy(config.foreground.iconName)
     \/ config.foreground.iconName \notin DOMAIN IconCatalogue
     \/ iconsCache = EmptyCache

ForegroundTags == {"text", "foreignObject", "icon"}

ForegroundElements(doc) == {i \in 1..Len(doc) : doc[i].tag \in ForegroundTags}

\* C11: with the icon kind and an icon name that is empty, unknown or looked
\* up before the catalogue is loaded, generateSVG does not fail and emits no
\* foreground markup; under a transparent background the document is the
\* header, the two marker rects and the closing tag, with no fill rect.
C11_MissingGlyphEmitsNothing ==
  \A size \in Sizes :
    docs[size] # NoDoc /\ StructurallyValid(config) /\ GlyphMissing =>
      /\ docs[size] # Threw
      /\ ForegroundElements(docs[size]) = {}
      /\ config.background.type = "transparent" =>
           /\ Len(docs[size]) = 4
           /\ docs[size][1].tag = "svg" /\ docs[size][4].tag = "/svg"
           /\ IsMarker(docs[size][2]) /\ IsMarker(docs[size][3])
           /\ HasBothMarkers(docs[size], size)
           /\ BackgroundRects(docs[size]) = {}

\* A name the loaded catalogue does not have, on a transparent background
C11_Witness ==
  /\ StructurallyValid(config) /\ GlyphMissing
  /\ config.foreground.iconName = <<"nope">>
  /\ iconsCache = IconCatalogue
  /\ config.background.type = "transparent"
  /\ \E size \in Sizes : docs[size] # NoDoc /\ Len(docs[size]) = 4

-----------------------------------------------------------------------------
(* Font size without a 2D context                                          *)

NonMonospaceTextWithoutContext ==
  /\ config.foreground.type = "text" /\ ~config.foreground.monospace
  /\ ~measureAvailable

NonBlankLines == {l \in 1..LineCount : NonBlank(ConfiguredLines[l])}

\* Largest font size whose estimated width 0.6 x fontSize x characterCount
\* is at most extent
HeuristicSize(line, extent) == RDiv(extent, Rat(60 * Len(line), 100))

-----------------------------------------------------------------------------
(* Measurement failures                                                    *)

NonMonospaceTextKind ==
  /\ config.foreground.type \in {"text", "emoji", "emoji-mono"}
  /\ ~MonospaceMode(config.foreground)

\* C13: when the measurement oracle is absent or throws during a render of
\* non-monospace text, generateSVG still returns a document: the exception
\* does not reach the caller.
C13_MeasureFailureRecovered ==
  \A size \in Sizes :
    docs[size] # NoDoc /\ StructurallyValid(config) /\ NonMonospaceTextKind
      /\ (~measureAvailable \/ measureThrows) =>
        /\ docs[size] # Threw
        /\ docs[size][Len(docs[size])] = SvgClose

-----------------------------------------------------------------------------
(* Previews                                                                *)

\* renderToMultipleElements has run and its generateSVG(512) returned
PreviewsRendered == reference # NoDoc /\ reference # Threw

\* C14: a call of renderToMultipleElements runs generateSVG once, at 512,
\* whatever the number of containers, and leaves in each container exactly
\* one clone of the reference document that differs from it in width and
\* height only, which are the container's size; the viewBox and every inner
\* element of the clone are those of the reference.
C14_PreviewsAreClonesOfOneLayout ==
  /\ reference # NoDoc => layoutRuns = 1
  /\ PreviewsRendered =>
       /\ reference[1].viewBox =
            <<RInt(0), RInt(0), RInt(ReferenceSize), RInt(ReferenceSize)>>
       /\ \A size \in PreviewSizes :
            /\ Len(containers[size]) = 1
            /\ LET clone == containers[size][1]
               IN  /\ Len(clone) = Len(reference)
                   /\ clone[1].width = RInt(size) /\ clone[1].height = RInt(size)
                   /\ clone[1] = [reference[1] EXCEPT !.width = RInt(size),
                                                      !.height = RInt(size)]
                   /\ \A i \in 2..Len(clone) : clone[i] = reference[i]

\* The five previews of a document with a foreground, the smallest 16 wide
C14_Witness ==
  /\ PreviewsRendered
  /\ ForegroundElements(reference) # {}
  /\ \A size \in PreviewSizes : Len(containers[size]) = 1
  /\ containers[16][1][1].width = RInt(16)
  /\ containers[16][1][1].viewBox = reference[1].viewBox

-----------------------------------------------------------------------------
(* Gradient definitions                                                    *)

DefsBlocks(doc) == {i \in 1..Len(doc) : doc[i].tag = "defs"}

\* gradientColor is present and not the empty string
GradientColorSet ==
  config.background.gradientColor # Undefined /\ config.background.gradientColor # <<>>

\* C15: the document has a gradient definitions block, with id bgGradient,
\* exactly when the background kind is linear-gradient or radial-gradient
\* and gradientColor is set; a solid or transparent background never has
\* one, and the block is a linearGradient for linear-gradient and a
\* radialGradient for radial-gradient.
C15_DefsIffGradientWithSecondColour ==
  \A size \in Sizes :
    Rendered(size) =>
      LET defs == DefsBlocks(docs[size])
      IN  /\ defs # {} <=>
               /\ config.background.type \in {"linear-gradient", "radial-gradient"}
               /\ GradientColorSet
          /\ config.background.type \in {"solid", "transparent"} => defs = {}
          /\ defs \subseteq {2}
          /\ \A i \in defs :
               /\ docs[size][i].id = "bgGradient"
               /\ config.background.type = "linear-gradient" =>
                    docs[size][i].gradient = "linearGradient"
               /\ config.background.type = "radial-gradient" =>
                    docs[size][i].gradient = "radialGradient"

\* A radial gradient with a second colour, and its radialGradient block
C15_Witness ==
  /\ config.background.type = "radial-gradient" /\ GradientColorSet
  /\ \E size \in Sizes :
       /\ Rendered(size)
       /\ DefsBlocks(docs[size]) = {2}
       /\ docs[size][2].gradient = "radialGradient"

-----------------------------------------------------------------------------
(* Escaping of text content                                                *)

\* The text content of the document's elements, in document order: the
\* content of a one-character <text>, of every <tspan> and of every <div>
RECURSIVE Contents(_)
Contents(doc) ==
  IF doc = <<>> THEN <<>>
  ELSE LET el == Head(doc)
           own == IF "content" \in DOMAIN el THEN <<el.content>>
                  ELSE IF "tspans" \in DOMAIN el
                  THEN [i \in 1..Len(el.tspans) |-> el.tspans[i].content]
                  ELSE IF "divs" \in DOMAIN el
                  THEN [i \in 1..Len(el.divs) |-> el.divs[i].content]
                  ELSE <<>>
       IN  own \o Contents(Tail(doc))

\* The characters of every line, one string per character
RECURSIVE Characters(_)
Characters(lines) ==
  IF lines = <<>> THEN <<>>
  ELSE [i \in 1..Len(Head(lines)) |-> <<Head(lines)[i]>>] \o Characters(Tail(lines))

\* The pieces of user text the document shows: the lines of the text or of
\* the emoji, or the single characters of the monospace grid
UserTexts ==
  LET fg    == config.foreground
      lines == Split(IF IsEmojiType(fg.type) THEN OrStr(fg.emoji, DefaultEmoji)
                     ELSE OrStr(fg.text, <<" ">>))
  IN  IF fg.type = "icon" THEN <<>>
      ELSE IF fg.type = "text" /\ fg.monospace /\ LongestLineLength(lines) > 0
      THEN Characters(lines)
      ELSE lines

\* No raw < > " ' and every & is the start of one of the five references
WellEscaped(content) ==
  \A i \in 1..Len(content) :
    /\ content[i] \notin {"<", ">", "\"", "'"}
    /\ content[i] = "&" =>
         \E ref \in References : StartsWith(SubSeq(content, i, Len(content)), ref[1])

\* C16: every piece of user text in the document (text lines, monospace
\* characters, emoji lines) is embedded escaped: no raw < > " ', every & the
\* start of one of the five references, and escaped exactly once, so that
\* the content reads back as the text the user supplied.
C16_TextContentEscapedOnce ==
  \A size \in Sizes :
    Rendered(size) =>
      LET contents == Contents(docs[size])
      IN  /\ Len(contents) = Len(UserTexts)
          /\ \A i \in 1..Len(contents) :
               /\ WellEscaped(contents[i])
               /\ XmlText(contents[i]) = UserTexts[i]

\* The text "&lt;" is embedded as "&amp;lt;"
C16_Witness ==
  /\ config.foreground.type = "text" /\ ~config.foreground.monospace
  /\ config.foreground.text = <<"&", "l", "t", ";">>
  /\ \E size \in Sizes :
       /\ Rendered(size)
       /\ Contents(docs[size]) = <<<<"&", "a", "m", "p", ";", "l", "t", ";">>>>

-----------------------------------------------------------------------------
(* Inactive fields                                                         *)

\* Another value for a field, and the value it has
OtherText(fg)  == {fg.text, <<"B", NL, "B">>}
OtherEmoji(fg) == {fg.emoji, <<"Z">>}
OtherIcon(fg)  == {fg.iconName, <<"heart-filled">>}

\* The font fields as they are, and all four changed
OtherFonts(fg) ==
  {[fontFamily |-> fg.fontFamily, fontWeight |-> fg.fontWeight,
    fontStyle |-> fg.fontStyle, textDecoration |-> fg.textDecoration],
   [fontFamily |-> "monospace", fontWeight |-> "100", fontStyle |-> "italic",
    textDecoration |-> "underline"]}

WithFonts(fg, fonts) ==
  [fg EXCEPT !.fontFamily = fonts.fontFamily, !.fontWeight = fonts.fontWeight,
             !.fontStyle = fonts.fontStyle, !.textDecoration = fonts.textDecoration]

\* The configurations that differ from cfg in fields its content kind does
\* not use: for icon the text, emoji, monospace and font fields; for emoji
\* and emoji-mono the text, icon name, monospace and font fields; for text
\* the emoji and the icon name
InactiveVariants(cfg) ==
  LET fg == cfg.foreground
  IN  IF fg.type = "icon"
      THEN {[cfg EXCEPT !.foreground =
               [WithFonts(fg, fonts) EXCEPT !.text = t, !.emoji = e, !.monospace = m]] :
              t \in OtherText(fg), e \in OtherEmoji(fg), m \in BOOLEAN,
              fonts \in OtherFonts(fg)}
      ELSE IF IsEmojiType(fg.type)
      THEN {[cfg EXCEPT !.foreground =
               [WithFonts(fg, fonts) EXCEPT !.text = t, !.iconName = n,
                                            !.monospace = m]] :
              t \in OtherText(fg), n \in OtherIcon(fg), m \in BOOLEAN,
              fonts \in OtherFonts(fg)}
      ELSE {[cfg EXCEPT !.foreground = [fg EXCEPT !.emoji = e, !.iconName = n]] :
              e \in OtherEmoji(fg), n \in OtherIcon(fg)}

\* C17: the document does not depend on the fields the content kind leaves
\* inactive: two configurations that differ only in such fields render the
\* same document at every size.
C17_InactiveFieldsDoNotInterfere ==
  \A size \in Sizes :
    docs[size] # NoDoc =>
      \A variant \in InactiveVariants(config) \ {config} :
        Render(variant, iconsCache, measureAvailable, measureThrows, size) = docs[size]

\* An emoji kind whose monospace flag is set, rendered as a foreignObject
C17_Witness ==
  /\ config.foreground.type = "emoji" /\ config.foreground.monospace
  /\ Cardinality(InactiveVariants(config)) > 1
  /\ \E size \in Sizes :
       /\ Rendered(size)
       /\ \E i \in 1..Len(docs[size]) : docs[size][i].tag = "foreignObject"

-----------------------------------------------------------------------------
(* Size percentage                                                         *)

\* The elements whose width is the layout budget itself: the foreignObject
\* of the emoji kinds and the root of the icon glyph
BudgetElements(doc) ==
  {i \in 1..Len(doc) : doc[i].tag \in {"foreignObject", "icon"}}

\* C18: for every sizePercent from 0 to 150, 0 included, the layout budget
\* is maxExtent = size x sizePercent / 100; only an unset sizePercent takes
\* the default of 80.
C18_BudgetIsSizePercent ==
  \A size \in Sizes :
    Rendered(size) =>
      \A i \in BudgetElements(docs[size]) :
        docs[size][i].width = SizePercentExtent(size)

-----------------------------------------------------------------------------
(* Configuration ownership and loading                                     *)

\* C19: the configuration generateSVG reads changes only through setConfig
\* or the constructor: whatever a caller does with the object it passed to
\* setConfig or got from getConfig, the fields the renderer reads are those
\* the configuration had when it was set.
C19_ConfigChangesOnlyThroughSetConfig ==
  lastWrite \in {"constructor", "setConfig"}

\* The object a loaded text stands for, as setConfig would receive it
Loaded(input) == JsonParse(input)

\* Both sections present, with the fields the render path needs
AppValid(cfg) ==
  /\ ~IsMissing(cfg.background) /\ ~IsMissing(cfg.foreground)
  /\ cfg.background.type # UndefinedOf("type")
  /\ StructurallyValid(cfg)

\* An external text that does not parse, or whose object is not a
\* configuration
InvalidInput(input) ==
  input # NoParam /\ (input = Unparseable \/ ~AppValid(Loaded(input)))

\* C20: a configuration supplied through Apply or through ?c= that does not
\* parse or is structurally invalid is rejected at the loading boundary: an
\* error is reported, setConfig is not called with it, the URL is not
\* rewritten to it and no exception is raised inside generateSVG because
\* of it.
C20_InvalidConfigRejectedAtBoundary ==
  lastCall.handler \in {"apply", "constructor"} /\ InvalidInput(lastCall.input) =>
    /\ lastCall.reported
    /\ lastCall.input # Unparseable =>
         /\ config # Loaded(lastCall.input)
         /\ url # encodeConfigToURL(Loaded(lastCall.input))
    /\ reference # Threw


-----------------------------------------------------------------------------
(* Gradient reference                                                      *)

\* The background rects whose fill is the gradient reference
GradientFilled(doc) == {i \in BackgroundRects(doc) : doc[i].fill = UrlBgGradient}

\* C30: whenever the background rect of a document has fill url(#bgGradient),
\* the same document has a gradient definition with id bgGradient; also for
\* a gradient kind whose gradientColor is unset or empty.
C30_GradientReferenceIsDefined ==
  \A size \in Sizes :
    (Rendered(size) /\ GradientFilled(docs[size]) # {}) =>
      \E i \in DefsBlocks(docs[size]) : docs[size][i].id = "bgGradient"


-----------------------------------------------------------------------------
(* Embedded glyph                                                          *)

\* The icon kind with a name the loaded glyph source resolves
GlyphResolved ==
  /\ config.foreground.type = "icon"
  /\ Truthy(config.foreground.iconName)
  /\ HasIcon(iconsCache, config.foreground.iconName)

IconElements(doc) == {i \in 1..Len(doc) : doc[i].tag = "icon"}

\* The attribute that paints the glyph: stroke for an outline glyph (its fill
\* is none), fill for a filled glyph; a keyword value is kept as a one-word
\* sequence
PaintAttribute(el) == IF el.fill = "none" THEN el.stroke ELSE <<el.fill>>

\* C23: for the icon kind with a resolved name the document has one embedded
\* glyph root with x = y = (size - maxExtent)/2 and width = height =
\* maxExtent, and the attribute that paints the glyph, stroke for an outline
\* glyph and fill for a filled glyph, is the configured foreground colour.
C23_GlyphPlacedAndColoured ==
  \A size \in Sizes :
    (Rendered(size) /\ GlyphResolved) =>
      /\ Cardinality(IconElements(docs[size])) = 1
      /\ \A i \in IconElements(docs[size]) :
           LET el == docs[size][i]
               offset == RDiv(RSub(RInt(size), MaxExtent(size)), RInt(2))
           IN  /\ el.x = offset /\ el.y = offset
               /\ el.width = MaxExtent(size) /\ el.height = MaxExtent(size)
               /\ PaintAttribute(el) = config.foreground.color


-----------------------------------------------------------------------------
(* Settings in the URL                                                     *)

\* C22: at start-up and after every configuration-changing operation,
\* either the URL has no parameter c and the renderer's configuration is
\* buildDefaultConfig(), or decodeConfigFromURL of the parameter c is the
\* renderer's current configuration.
C22_UrlEncodesConfig ==
  \/ url = NoParam /\ config = buildDefaultConfig
  \/ url # NoParam /\ decodeConfigFromURL(url) = config


-----------------------------------------------------------------------------
(* Sidebar controls                                                        *)

\* The parameters of PARAMETERS that declare a condition
ConditionalParameters ==
  {<<"background", k>> : k \in {"color", "gradientColor", "gradientAngle",
                                "gradientSize"}}
    \cup {<<"foreground", k>> : k \in {"color", "text", "emoji", "iconName",
                                       "fontFamily", "fontWeight", "fontStyle",
                                       "textDecoration", "monospace"}}

\* condition(config) of a parameter
Condition(id, cfg) ==
  CASE id = <<"background", "color">> -> cfg.background.type # "transparent"
    [] id = <<"background", "gradientColor">> -> IsGradientType(cfg.background.type)
    [] id = <<"background", "gradientAngle">> -> cfg.background.type = "linear-gradient"
    [] id = <<"background", "gradientSize">> -> cfg.background.type = "radial-gradient"
    [] id = <<"foreground", "color">> -> cfg.foreground.type # "emoji"
    [] id \in {<<"foreground", "emoji">>, <<"foreground", "iconName">>} -> FALSE
    [] OTHER -> cfg.foreground.type = "text"

\* Both sections and both kinds are present, so every condition evaluates
ConditionsEvaluate(cfg) ==
  /\ ~IsMissing(cfg.background) /\ ~IsMissing(cfg.foreground)
  /\ cfg.background.type # UndefinedOf("type")
  /\ cfg.foreground.type # UndefinedOf("type")

\* C21: once the UI is built, and after every configuration change, the
\* control of every parameter that declares a condition is disabled exactly
\* when condition(config) is false.
C21_ControlDisabledIffConditionFalse ==
  ConditionsEvaluate(config) =>
    \A id \in ConditionalParameters :
      id \in disabledControls <=> ~Condition(id, config)

\* C28: when the URL carries a decodable configuration, the initial
\* configuration holds, at every parameter id, the decoded value where the
\* decoded object sets one and the parameter's defaultValue where it does not.
C28_InitialConfigMergesPerParameter ==
  (/\ lastCall.handler = "constructor"
   /\ lastCall.input # NoParam
   /\ decodeConfigFromURL(lastCall.input) # Null) =>
    LET decoded == decodeConfigFromURL(lastCall.input)
    IN  \A section \in SectionNames : \A key \in KeysOf(section) :
          getNestedValue(config, section, key) =
            IF getNestedValue(decoded, section, key) # UndefinedOf(key)
            THEN getNestedValue(decoded, section, key)
            ELSE buildDefaultConfig[section][key]

\* C29: after every sequence of control changes, Apply and Reset, each
\* control displays the value the renderer's configuration holds at the
\* control's parameter id.
C29_ControlsDisplayConfig ==
  \A c \in Controls : displayed[c] = getNestedValue(config, c[1], c[2])


-----------------------------------------------------------------------------
(* Exports and the glyph list                                              *)

\* C24: every image of one favicon pack (the PNG files and favicon.svg) and
\* the colours written to site.webmanifest and to the HTML snippet come from
\* the configuration in force when exportFaviconPack was called, whatever
\* configuration change happens while the call waits.
C24_PackFromConfigAtCall ==
  packExport.stage \in {"zipping", "downloaded"} =>
    /\ packExport.imagesFrom = packExport.called
    /\ packExport.svgFrom = packExport.called
    /\ packExport.themeColor = packExport.called.background.color
    /\ packExport.snippetColor = packExport.called.background.color

\* C25: every call of exportFaviconPack eventually completes: the promises
\* of the PNG files settle and favicon-pack.zip is downloaded, also when a
\* 2D context cannot be obtained, an image fails to load or toBlob yields no
\* blob.
C25_PackEventuallyDownloaded ==
  (packExport.stage \in {"pngs", "rejected"}) ~> (packExport.stage = "downloaded")

\* C26: the filename of a PNG downloaded by exportPNG(size) names the
\* content, the background colour and the foreground colour of the
\* configuration that was rendered into that PNG.
C26_FilenameDescribesRenderedConfig ==
  pngExport.stage = "downloaded" =>
    pngExport.filename = generateFilename(pngExport.rendered, "png", pngExport.size)

\* C27: every call of getAllIcons returns the same list: the same names,
\* display names and svg strings in the same order, from the first call
\* that loads the catalogue and from every later call served by the cache.
C27_GetAllIconsIdempotent ==
  \A i, j \in DOMAIN iconLists : iconLists[i] = iconLists[j]

====
